---- MODULE Spec2Model ----
(***************************************************************************)
(* A model of llama-rs. Three parts, each with its own specification:      *)
(*  - Spec: the inference session, its prompt-feed loop, single-token      *)
(*    step, inference_with_prompt driver and snapshot serialisation        *)
(*    (src/llama-rs/src/common/inference.rs), on top of the session        *)
(*    effects of the BLOOM forward evaluator;                              *)
(*  - LoadSpec: one load of a model file                                   *)
(*    (src/crates/llm-base/src/loader.rs) with the BLOOM model builder     *)
(*    (src/crates/models/bloom/src/lib.rs);                                *)
(*  - EvalSpec: threads calling Bloom::evaluate on sessions of one model.  *)
(***************************************************************************)
EXTENDS Integers, Sequences, FiniteSets, TLC

VARIABLES
    session,              \* the InferenceSession: n_past, tokens, last_logits, memory_k, memory_v, params
    params,               \* the InferenceParameters handed to every call
    pc,                   \* position of the single caller thread
    call,                 \* the public method the caller invoked last
    prompt,               \* argument of feed_prompt / inference_with_prompt
    prompt_tokens,        \* feed_prompt: the tokenized prompt
    bpos,                 \* feed_prompt: 1-based start of the current chunk
    tpos,                 \* feed_prompt: 1-based index of the next token of the chunk
    ppos,                 \* inference_with_prompt: 1-based index of the play-back loop
    maximum_token_count,  \* inference_with_prompt: the Option<usize> argument
    tokens_processed,     \* inference_with_prompt: loop counter
    next_token,           \* infer_next_token: the sampled id
    token,                \* inference_with_prompt: the OutputToken returned by infer_next_token
    stats,                \* inference_with_prompt: InferenceStats
    result,               \* what the last public call returned
    events,               \* history: evaluate calls, callback calls and RNG draws of the current call
    fp_start,             \* history: Len(events) when feed_prompt was entered
    session0,             \* history: the session when the current public call began
    n_calls,              \* history: number of public calls made on the session
    writer,               \* the bytes InferenceSnapshotRef::write produced
    snapshot,             \* the InferenceSnapshot InferenceSnapshot::read produced
    load_input,           \* load: the path's siblings, the file and the ModelParameters
    lpc,                  \* load: position of the loading thread
    loader,               \* load: the Loader the codec drives
    tl,                   \* load: the MmapCompatibleLoader handed to the model builder
    progress,             \* load: the LoadProgress events the callback received, in order
    load_result,          \* load: what load returned
    cursor,               \* load: the codec's position in the vocabulary / tensor list
    builder,              \* load: KnownModel::new's position and its calls on the TensorLoader
    model,                \* evaluate: the Bloom model the sessions share
    sessions,             \* evaluate: the InferenceSession of each thread
    threads,              \* evaluate: each thread's position in its evaluate call
    scratch,              \* evaluate: the sizing of the scratch buffer of one call
    info_log,             \* info: what each run of the command logged
    chat_mode,            \* interactive: false for REPL mode, true for chat mode
    session_backup,       \* interactive: the clone of the session taken before a line
    repl                  \* interactive: the position in the read loop, the lines read

caller_vars == <<session, params, pc, call, prompt, prompt_tokens, bpos, tpos, ppos,
                 maximum_token_count, tokens_processed, next_token, token, stats,
                 result, events, fp_start, session0, n_calls, writer, snapshot>>

load_vars == <<load_input, lpc, loader, tl, progress, load_result, cursor, builder>>

eval_vars == <<model, sessions, threads, scratch>>

main_vars == <<info_log, chat_mode, session_backup, repl>>

vars == <<caller_vars, load_vars, eval_vars, main_vars>>

locals == <<prompt, prompt_tokens, bpos, tpos, ppos, maximum_token_count,
            tokens_processed, next_token, token, stats>>

(***************************************************************************)
(* Bounds of the model.                                                    *)
(***************************************************************************)
\* hyperparameters of the loaded model
n_context_tokens == 3
n_layer == 2
n_embd == 2
n_vocab == 3
\* a value of InferenceParameters::n_batch other than the default
SmallBatch == 2
\* prompts of 0 .. MaxShortPrompt pieces, and one of LongPromptLen pieces
MaxShortPrompt == 1
LongPromptLen == 9
\* the Some(k) given as maximum_token_count, besides None and Some(0)
MaxCount == 1
\* prompts are fed while the session holds at most MaxTokens tokens, tokens are
\* sampled until it holds one more than the context window, and the caller
\* makes at most MaxCalls calls
MaxTokens == 10
MaxCalls == 2

(***************************************************************************)
(* Program constants.                                                      *)
(***************************************************************************)
\* prompt_tokens.chunks(8)
chunk_size == 8
\* the default size of the scratch buffer of an evaluate call, in bytes:
\* 1024 * 1024 * 1024
GiB == 1073741824
\* InferenceParameters::default().n_batch
default_n_batch == 8
\* InferenceSessionParameters::default().repetition_penalty_last_n
default_repetition_penalty_last_n == 512
\* token ids the tokenizer and the sampler treat specially
BOS_TOKEN_ID == 1
EOD_TOKEN_ID == 2


(***************************************************************************)
(* OutputToken, InferenceError, Result.                                    *)
(***************************************************************************)
Token(id) == [tag |-> "Token", id |-> id]
EndOfText == [tag |-> "EndOfText", id |-> EOD_TOKEN_ID]
NoToken == [tag |-> "-", id |-> 0]

\* OutputToken::from_id
from_id(id) == IF id = EOD_TOKEN_ID THEN EndOfText ELSE Token(id)

Ok == [tag |-> "Ok", inner |-> "-"]
ContextFull == [tag |-> "ContextFull", inner |-> "-"]
TokenizationFailed == [tag |-> "TokenizationFailed", inner |-> "-"]
UserCallback(e) == [tag |-> "UserCallback", inner |-> e]
Pending == [tag |-> "-", inner |-> "-"]

\* what a per-token callback may return: Ok(()) or Err(e)
CallbackResults == {"ok", "E1"}

(***************************************************************************)
(* History of the current public call.                                     *)
(***************************************************************************)
EvEvaluate(batch) == [kind |-> "evaluate", batch |-> batch, tok |-> NoToken, res |-> "-"]
EvCallback(tk, r) == [kind |-> "callback", batch |-> <<>>, tok |-> tk, res |-> r]
EvSample(id) == [kind |-> "sample", batch |-> <<id>>, tok |-> NoToken, res |-> "-"]

(***************************************************************************)
(* The session and the forward evaluator's effects on it.                  *)
(***************************************************************************)
\* ggml element size of a K/V memory tensor
element_size(t) == IF t = "Float16" THEN 2 ELSE 4

DefaultSessionParameters ==
    [repetition_penalty_last_n |-> default_repetition_penalty_last_n,
     memory_k_type |-> "Float32", memory_v_type |-> "Float32"]


\* number of elements of memory_k and of memory_v
n_mem == n_layer * n_context_tokens * n_embd

\* InferenceSession::new: an empty history and zeroed tensors
InferenceSession_new(sp) ==
    [params |-> sp,
     n_past |-> 0,
     mem_per_token |-> 0,
     tokens |-> <<>>,
     last_logits |-> [i \in 1 .. n_vocab |-> 0],
     memory_k |-> [i \in 1 .. n_mem |-> 0],
     memory_v |-> [i \in 1 .. n_mem |-> 0]]

\* The values the graph computes stand for f32 bit patterns; they are a fixed
\* function of the token, the layer, the channel and the position.
KCur(tk, il, c) == 1 + tk + n_vocab * (c + n_embd * il)
VCur(tk, il, c) == 100 + KCur(tk, il, c)
Logits(tk, pos) == [i \in 1 .. n_vocab |-> 1 + ((tk + pos + i) % 7)]

\* 0-based element offsets layer il writes: a view of n * n_embd elements
\* starting at n_embd * (il * n_ctx + n_past)
kv_view(il, n_past, n) ==
    { n_embd * (il * n_context_tokens + n_past) + e : e \in 0 .. (n * n_embd - 1) }

\* the write of layer il leaves the tensor when the view ends beyond it
view_out_of_bounds(n_past, n) ==
    \E il \in 0 .. (n_layer - 1) : \E off \in kv_view(il, n_past, n) : off >= n_mem

\* "store key and value to memory": the layers run in order, each copies its
\* n columns into its view; a later layer overwrites an earlier one
store_kv(mem, n_past, batch, which) ==
    LET n == Len(batch)
        writers(off) == { il \in 0 .. (n_layer - 1) : off \in kv_view(il, n_past, n) }
        last(off) == CHOOSE il \in writers(off) : \A jl \in writers(off) : jl <= il
        val(off) ==
            LET il == last(off)
                e == off - n_embd * (il * n_context_tokens + n_past)
            IN IF which = "k"
               THEN KCur(batch[(e \div n_embd) + 1], il, e % n_embd)
               ELSE VCur(batch[(e \div n_embd) + 1], il, e % n_embd)
    IN [i \in 1 .. n_mem |->
            IF n >= 1 /\ writers(i - 1) # {} THEN val(i - 1) ELSE mem[i]]

\* common::update_session: the scratch need per token is measured when it
\* is not known yet, the positions of the batch are committed. used_mem is
\* ctx0.used_mem() after a graph over n tokens has run: the transient
\* scratch bytes, so many per token
update_session(s, n) ==
    LET scratch_per_token == 3
        used_mem == scratch_per_token * n
    IN
    [s EXCEPT !.mem_per_token = IF @ = 0 /\ n > 0 THEN used_mem \div n ELSE @,
              !.n_past = @ + n]

\* common::read_last_token: the logits column of the last input token
read_last_token(s, batch) ==
    IF Len(batch) = 0 THEN s
    ELSE [s EXCEPT !.last_logits = Logits(batch[Len(batch)], s.n_past + Len(batch))]

\* Bloom::evaluate, as far as the session sees it
evaluate(s, batch) ==
    LET s1 == [s EXCEPT !.memory_k = store_kv(@, s.n_past, batch, "k"),
                        !.memory_v = store_kv(@, s.n_past, batch, "v")]
    IN update_session(read_last_token(s1, batch), Len(batch))

\* The outcomes of one evaluate call. A write outside the K/V tensors is
\* undefined behaviour: the process may die, or go on with the session
\* fields updated as by evaluate.
EvaluateOutcomes(s, batch) ==
    {[aborted |-> FALSE, s |-> evaluate(s, batch)]}
    \cup (IF view_out_of_bounds(s.n_past, Len(batch))
          THEN {[aborted |-> TRUE, s |-> s]} ELSE {})

(***************************************************************************)
(* Prompts and the tokenizer.                                              *)
(***************************************************************************)
\* "No string ever tokenizes to the end of sentence."
\* the text of k pieces: its ids alternate between two ordinary ids
Text(k) == [i \in 1 .. k |-> IF i % 2 = 1 THEN 0 ELSE 1]
\* a prompt is given by the ids of its pieces; ok = FALSE is a text with a
\* byte no vocabulary entry covers
Prompts ==
    { [ok |-> TRUE, ids |-> Text(k)] : k \in (0 .. MaxShortPrompt) \cup {LongPromptLen} }
    \cup { [ok |-> FALSE, ids |-> <<>>] }
NoPrompt == [ok |-> TRUE, ids |-> <<>>]

\* Model::tokenize(vocab, text, bos): the beginning-of-sentence id is
\* prepended when asked for; an uncovered byte fails
tokenize(text, bos) ==
    IF ~text.ok THEN [ok |-> FALSE, ids |-> <<>>]
    ELSE [ok |-> TRUE, ids |-> (IF bos THEN <<BOS_TOKEN_ID>> ELSE <<>>) \o text.ids]

(***************************************************************************)
(* Init: Model::start_session, and the parameters of the run.              *)
(***************************************************************************)
NoStats == [prompt_tokens |-> 0, predict_tokens |-> 0]
None == [some |-> FALSE, v |-> 0]
Some(k) == [some |-> TRUE, v |-> k]

\* InferenceParameters::default(), as far as the session reads it
DefaultParameters == [n_batch |-> default_n_batch, play_back_previous_tokens |-> FALSE]

\* the runs: all defaults, or every parameter changed
Configurations ==
    {[session_params |-> DefaultSessionParameters, params |-> DefaultParameters],
     [session_params |-> [repetition_penalty_last_n |-> n_context_tokens,
                          memory_k_type |-> "Float16", memory_v_type |-> "Float32"],
      params |-> [n_batch |-> SmallBatch, play_back_previous_tokens |-> TRUE]]}

CallerInit ==
    /\ \E cfg \in Configurations :
          /\ session = InferenceSession_new(cfg.session_params)   \* Model::start_session
          /\ params = cfg.params
    /\ pc = "idle"
    /\ call = "none"
    /\ prompt = NoPrompt
    /\ prompt_tokens = <<>>
    /\ bpos = 1
    /\ tpos = 1
    /\ ppos = 1
    /\ maximum_token_count = None
    /\ tokens_processed = 0
    /\ next_token = 0
    /\ token = NoToken
    /\ stats = NoStats
    /\ result = Pending
    /\ events = <<>>
    /\ fp_start = 0
    /\ session0 = session
    /\ n_calls = 0
    /\ writer = <<>>
    /\ snapshot = <<>>

\* a public call begins: its locals are fresh
Begin(name, text, max, at) ==
    /\ pc = "idle"
    /\ n_calls' = n_calls + 1
    /\ call' = name
    /\ prompt' = text
    /\ prompt_tokens' = <<>>
    /\ bpos' = 1
    /\ tpos' = 1
    /\ ppos' = 1
    /\ maximum_token_count' = max
    /\ tokens_processed' = 0
    /\ next_token' = 0
    /\ token' = NoToken
    /\ stats' = NoStats
    /\ result' = Pending
    /\ events' = <<>>
    /\ fp_start' = 0
    /\ session0' = session
    /\ pc' = at
    /\ writer' = <<>>
    /\ snapshot' = <<>>
    /\ UNCHANGED <<session, params, load_vars, eval_vars>>

\* a call of the caller that drives the session directly
Enter(name, text, max, at) ==
    /\ n_calls < MaxCalls
    /\ Begin(name, text, max, at)
    /\ UNCHANGED main_vars

\* the public call returns r to its caller
Return(r) ==
    /\ pc' = "idle"
    /\ result' = r

(***************************************************************************)
(* InferenceSession::feed_prompt                                           *)
(***************************************************************************)
\* the chunk of prompt_tokens.chunks(8) that starts at index b
chunk(toks, b) ==
    LET last == b + chunk_size - 1
    IN SubSeq(toks, b, IF last < Len(toks) THEN last ELSE Len(toks))

\* a callback whose error is swallowed
callback_failed_ignored(r) == FALSE

\* a callback taken to fail whatever it returns
callback_failed_always(r) == TRUE

\* "if let Err(e) = callback(..)"
callback_failed(r) == r # "ok"

\* a history that grows at the wrong end
push_front(s, tk) == [s EXCEPT !.tokens = <<tk>> \o @]

\* a history that leaves the end-of-text id out
push_unless_eot(s, tk) == IF tk = EOD_TOKEN_ID THEN s ELSE [s EXCEPT !.tokens = Append(@, tk)]

\* self.tokens.push(tk)
push(s, tk) == [s EXCEPT !.tokens = Append(@, tk)]

\* a loop that runs its body once before it looks at the tokens
has_next_chunk_do_while(toks, b) == b <= Len(toks) \/ b = 1

\* "for batch in prompt_tokens.chunks(8)": there is a chunk starting at b
has_next_chunk(toks, b) == b <= Len(toks)

CallFeedPrompt ==
    \E text \in Prompts :
        /\ Len(session.tokens) + Len(text.ids) + 1 <= MaxTokens
        /\ Enter("feed_prompt", text, None, "fp_tokenize")

\* lines 190-191: tokenize, with BOS iff n_past == 0; `?` returns the error
FeedPromptTokenize ==
    /\ pc = "fp_tokenize"
    /\ LET beginning_of_sentence == session.n_past = 0
           r == tokenize(prompt, beginning_of_sentence)
       IN IF r.ok
          THEN /\ prompt_tokens' = r.ids
               /\ bpos' = 1
               /\ fp_start' = Len(events)
               /\ pc' = "fp_chunk"
               /\ UNCHANGED result
          ELSE /\ Return(TokenizationFailed)
               /\ UNCHANGED <<prompt_tokens, bpos, fp_start>>
    /\ UNCHANGED <<session, params, call, prompt, tpos, ppos, maximum_token_count,
                   tokens_processed, next_token, token, stats, events, session0,
                   n_calls, writer, snapshot>>
    /\ UNCHANGED <<load_vars, eval_vars, main_vars>>

\* lines 197-198: the next chunk is evaluated
FeedPromptEvaluate ==
    /\ pc = "fp_chunk"
    /\ has_next_chunk(prompt_tokens, bpos)
    /\ LET batch == chunk(prompt_tokens, bpos)
       IN /\ events' = Append(events, EvEvaluate(batch))
          /\ \E o \in EvaluateOutcomes(session, batch) :
                IF o.aborted
                THEN pc' = "aborted" /\ UNCHANGED <<session, tpos>>
                ELSE pc' = "fp_token" /\ session' = o.s /\ tpos' = bpos
    /\ UNCHANGED <<params, call, prompt, prompt_tokens, bpos, ppos, maximum_token_count,
                   tokens_processed, next_token, token, stats, result, fp_start,
                   session0, n_calls, writer, snapshot>>
    /\ UNCHANGED <<load_vars, eval_vars, main_vars>>

\* lines 199-208: the callback sees the token, then the token is recorded
FeedPromptToken ==
    /\ pc = "fp_token"
    /\ LET tk == prompt_tokens[tpos]
           last == Len(chunk(prompt_tokens, bpos)) + bpos - 1
       IN \E r \in CallbackResults :
            /\ events' = Append(events, EvCallback(Token(tk), r))
            /\ IF callback_failed(r)
               THEN /\ Return(UserCallback(r))
                    /\ UNCHANGED <<session, tpos, bpos>>
               ELSE /\ session' = push(session, tk)
                    /\ UNCHANGED result
                    /\ IF tpos < last
                       THEN tpos' = tpos + 1 /\ UNCHANGED <<pc, bpos>>
                       ELSE pc' = "fp_chunk" /\ bpos' = bpos + chunk_size /\ UNCHANGED tpos
    /\ UNCHANGED <<params, call, prompt, prompt_tokens, ppos, maximum_token_count,
                   tokens_processed, next_token, token, stats, fp_start,
                   session0, n_calls, writer, snapshot>>
    /\ UNCHANGED <<load_vars, eval_vars, main_vars>>

\* line 211: Ok(()), to the caller or back into inference_with_prompt
FeedPromptReturn ==
    /\ pc = "fp_chunk"
    /\ ~has_next_chunk(prompt_tokens, bpos)
    /\ IF call = "feed_prompt"
       THEN Return(Ok)
       ELSE pc' = "iwp_fed" /\ UNCHANGED result
    /\ UNCHANGED <<session, params, call, prompt, prompt_tokens, bpos, tpos, ppos,
                   maximum_token_count, tokens_processed, next_token, token, stats,
                   events, fp_start, session0, n_calls, writer, snapshot>>
    /\ UNCHANGED <<load_vars, eval_vars, main_vars>>

(***************************************************************************)
(* InferenceSession::infer_next_token                                      *)
(***************************************************************************)
\* Model::sample_top_p_top_k: the RNG draws among the ids the top-k and
\* top-p filters keep; here they keep the end-of-text id and one other id
sample_top_p_top_k(s) == {EOD_TOKEN_ID, 0}

\* a step that never reports the end of the text
output_token_never_eot(id) == Token(id)

\* lines 240-244: the value returned for the sampled id
output_token(id) == IF id = EOD_TOKEN_ID THEN EndOfText ELSE Token(id)

CallInferNextToken ==
    Enter("infer_next_token", NoPrompt, None, "inf_sample")

\* lines 226-229: sample from last_logits, record the id
InferNextTokenSample ==
    /\ pc = "inf_sample"
    /\ Len(session.tokens) <= n_context_tokens
    /\ \E id \in sample_top_p_top_k(session) :
          /\ next_token' = id
          /\ session' = push(session, id)
          /\ events' = Append(events, EvSample(id))
    /\ pc' = "inf_eval"
    /\ UNCHANGED <<params, call, prompt, prompt_tokens, bpos, tpos, ppos,
                   maximum_token_count, tokens_processed, token, stats, result,
                   fp_start, session0, n_calls, writer, snapshot>>
    /\ UNCHANGED <<load_vars, eval_vars, main_vars>>

\* lines 232-244: evaluate the one-token batch, return the token
InferNextTokenEvaluate ==
    /\ pc = "inf_eval"
    /\ LET batch == <<next_token>>
       IN /\ events' = Append(events, EvEvaluate(batch))
          /\ \E o \in EvaluateOutcomes(session, batch) :
                IF o.aborted
                THEN pc' = "aborted" /\ UNCHANGED <<session, token, result>>
                ELSE /\ session' = o.s
                     /\ token' = output_token(next_token)
                     /\ IF call = "infer_next_token"
                        THEN Return(Ok)
                        ELSE pc' = "iwp_token" /\ UNCHANGED result
    /\ UNCHANGED <<params, call, prompt, prompt_tokens, bpos, tpos, ppos,
                   maximum_token_count, tokens_processed, next_token, stats,
                   fp_start, session0, n_calls, writer, snapshot>>
    /\ UNCHANGED <<load_vars, eval_vars, main_vars>>

(***************************************************************************)
(* InferenceSession::inference_with_prompt                                 *)
(***************************************************************************)
MaximumTokenCounts == {None, Some(0), Some(MaxCount)}

\* a loop test that is off by one
loop_continues_inclusive(tp, max) == IF max.some THEN tp <= max.v ELSE TRUE

\* "while tokens_processed < maximum_token_count", with
\* maximum_token_count.unwrap_or(usize::MAX): a counter that started at 0
\* and counts tokens held in memory stays below usize::MAX
loop_continues(tp, max) == IF max.some THEN tp < max.v ELSE TRUE

CallInferenceWithPrompt ==
    \E text \in Prompts : \E max \in MaximumTokenCounts :
        /\ Len(session.tokens) + Len(text.ids) + 1 <= MaxTokens
        /\ Enter("inference_with_prompt", text, max, "iwp_playback")

\* lines 264-273: the tokens of the session are played back to the callback
InferencePlayBack ==
    /\ pc = "iwp_playback"
    /\ IF params.play_back_previous_tokens /\ ppos <= Len(session.tokens)
       THEN \E r \in CallbackResults :
               /\ events' = Append(events, EvCallback(from_id(session.tokens[ppos]), r))
               /\ IF callback_failed(r)
                  THEN Return(UserCallback(r)) /\ UNCHANGED ppos
                  ELSE ppos' = ppos + 1 /\ UNCHANGED <<pc, result>>
       ELSE pc' = "fp_tokenize" /\ UNCHANGED <<events, ppos, result>>
    /\ UNCHANGED <<session, params, call, prompt, prompt_tokens, bpos, tpos,
                   maximum_token_count, tokens_processed, next_token, token, stats,
                   fp_start, session0, n_calls, writer, snapshot>>
    /\ UNCHANGED <<load_vars, eval_vars, main_vars>>

\* lines 281-289: feed_prompt returned Ok
InferencePromptFed ==
    /\ pc = "iwp_fed"
    /\ stats' = [stats EXCEPT !.prompt_tokens = session.n_past]
    /\ tokens_processed' = 0
    /\ pc' = "iwp_loop"
    /\ UNCHANGED <<session, params, call, prompt, prompt_tokens, bpos, tpos, ppos,
                   maximum_token_count, next_token, token, result, events,
                   fp_start, session0, n_calls, writer, snapshot>>
    /\ UNCHANGED <<load_vars, eval_vars, main_vars>>

\* lines 290-291 and 303-306: the loop test
InferenceLoop ==
    /\ pc = "iwp_loop"
    /\ IF loop_continues(tokens_processed, maximum_token_count)
       THEN pc' = "inf_sample" /\ UNCHANGED <<stats, result>>
       ELSE /\ stats' = [stats EXCEPT !.predict_tokens = session.n_past]
            /\ Return(Ok)
    /\ UNCHANGED <<session, params, call, prompt, prompt_tokens, bpos, tpos, ppos,
                   maximum_token_count, tokens_processed, next_token, token, events,
                   fp_start, session0, n_calls, writer, snapshot>>
    /\ UNCHANGED <<load_vars, eval_vars, main_vars>>

\* lines 293-301: the callback sees the sampled token; EndOfText breaks
InferenceToken ==
    /\ pc = "iwp_token"
    /\ \E r \in CallbackResults :
          /\ events' = Append(events, EvCallback(token, r))
          /\ IF callback_failed(r)
             THEN Return(UserCallback(r)) /\ UNCHANGED <<tokens_processed, stats>>
             ELSE /\ tokens_processed' = tokens_processed + 1
                  /\ IF token = EndOfText
                     THEN /\ stats' = [stats EXCEPT !.predict_tokens = session.n_past]
                          /\ Return(Ok)
                     ELSE pc' = "iwp_loop" /\ UNCHANGED <<stats, result>>
    /\ UNCHANGED <<session, params, call, prompt, prompt_tokens, bpos, tpos, ppos,
                   maximum_token_count, next_token, token, fp_start, session0,
                   n_calls, writer, snapshot>>
    /\ UNCHANGED <<load_vars, eval_vars, main_vars>>

(***************************************************************************)
(* get_snapshot, InferenceSnapshotRef::write, InferenceSnapshot::read      *)
(***************************************************************************)
RECURSIVE to_le(_, _), from_le(_)
\* little-endian bytes of an unsigned integer of w bytes
to_le(v, w) == IF w = 0 THEN <<>> ELSE <<v % 256>> \o to_le(v \div 256, w - 1)
from_le(bs) == IF bs = <<>> THEN 0 ELSE bs[1] + 256 * from_le(Tail(bs))
\* the elements of xs, w bytes each, one after the other
enc_elems(xs, w) ==
    [i \in 1 .. (Len(xs) * w) |-> to_le(xs[((i - 1) \div w) + 1], w)[((i - 1) % w) + 1]]

\* the bytes of a tensor's data: nbytes = elements * element size
raw_bytes(mem, type) == enc_elems(mem, element_size(type))

\* lines 317-333
get_snapshot(s) ==
    [npast |-> s.n_past,
     session_params |-> s.params,
     tokens |-> s.tokens,
     logits |-> s.last_logits,
     memory_k |-> raw_bytes(s.memory_k, s.params.memory_k_type),
     memory_v |-> raw_bytes(s.memory_v, s.params.memory_v_type)]

\* bincode's encodings: usize as u64, an enum as the u32 index of its
\* variant, a sequence as its u64 length and then its elements
enc_usize(v) == to_le(v, 8)
enc_kv_type(t) == to_le(IF t = "Float16" THEN 0 ELSE 1, 4)
dec_kv_type(i) == IF i = 0 THEN "Float16" ELSE "Float32"
enc_seq(xs, w) == enc_usize(Len(xs)) \o enc_elems(xs, w)

\* #[derive(Serialize)] of InferenceSessionParameters, in field order
enc_session_params(sp) ==
    enc_usize(sp.repetition_penalty_last_n)
    \o enc_kv_type(sp.memory_k_type) \o enc_kv_type(sp.memory_v_type)

\* a writer whose last two fields are out of step with the reader's
write_v_before_k(ref) ==
    enc_usize(ref.npast)
    \o enc_session_params(ref.session_params)
    \o enc_seq(ref.tokens, 4)
    \o enc_seq(ref.logits, 4)
    \o enc_seq(ref.memory_v, 1)
    \o enc_seq(ref.memory_k, 1)

\* InferenceSnapshotRef::write: the fields in declaration order
write(ref) ==
    enc_usize(ref.npast)
    \o enc_session_params(ref.session_params)
    \o enc_seq(ref.tokens, 4)
    \o enc_seq(ref.logits, 4)
    \o enc_seq(ref.memory_k, 1)
    \o enc_seq(ref.memory_v, 1)

\* the w bytes at 1-based position p, and a sequence of n elements of w bytes
take(bs, p, w) == SubSeq(bs, p, p + w - 1)
dec_elems(bs, p, n, w) == [i \in 1 .. n |-> from_le(take(bs, p + w * (i - 1), w))]

\* InferenceSnapshot::read: the fields in declaration order
read(bs) ==
    LET npast == from_le(take(bs, 1, 8))
        rep == from_le(take(bs, 9, 8))
        kt == from_le(take(bs, 17, 4))
        vt == from_le(take(bs, 21, 4))
        n_tok == from_le(take(bs, 25, 8))
        p_log == 33 + 4 * n_tok
        n_log == from_le(take(bs, p_log, 8))
        p_k == p_log + 8 + 4 * n_log
        n_k == from_le(take(bs, p_k, 8))
        p_v == p_k + 8 + n_k
        n_v == from_le(take(bs, p_v, 8))
    IN [npast |-> npast,
        session_params |-> [repetition_penalty_last_n |-> rep,
                            memory_k_type |-> dec_kv_type(kt),
                            memory_v_type |-> dec_kv_type(vt)],
        tokens |-> dec_elems(bs, 33, n_tok, 4),
        last_logits |-> dec_elems(bs, p_log + 8, n_log, 4),
        memory_k |-> dec_elems(bs, p_k + 8, n_k, 1),
        memory_v |-> dec_elems(bs, p_v + 8, n_v, 1)]

\* the caller snapshots the idle session into a buffer
WriteSnapshot ==
    /\ pc = "idle"
    /\ writer = <<>>
    /\ writer' = write(get_snapshot(session))
    /\ UNCHANGED <<session, params, pc, call, locals, result, events, fp_start,
                   session0, n_calls, snapshot>>
    /\ UNCHANGED <<load_vars, eval_vars, main_vars>>

\* and reads the buffer back
ReadSnapshot ==
    /\ writer # <<>>
    /\ snapshot = <<>>
    /\ snapshot' = <<read(writer)>>
    /\ UNCHANGED <<session, params, pc, call, locals, result, events, fp_start,
                   session0, n_calls, writer>>
    /\ UNCHANGED <<load_vars, eval_vars, main_vars>>

(***************************************************************************)
(* llm_base::load (src/crates/llm-base/src/loader.rs): the sibling search, *)
(* the codec driving the Loader handler, the arena, the model builder      *)
(* (Bloom::new, src/crates/models/bloom/src/lib.rs) calling the            *)
(* TensorLoader, and the progress events.                                  *)
(***************************************************************************)
\* --- FileType and its i32 codes ---
FileType ==
    {"F32", "MostlyF16", "MostlyQ4_0", "MostlyQ4_1", "MostlyQ4_1SomeF16",
     "MostlyQ4_2", "MostlyQ8_0", "MostlyQ5_0", "MostlyQ5_1"}

\* impl From<FileType> for i32
i32_from(ft) ==
    CASE ft = "F32" -> 0
      [] ft = "MostlyF16" -> 1
      [] ft = "MostlyQ4_0" -> 2
      [] ft = "MostlyQ4_1" -> 3
      [] ft = "MostlyQ4_1SomeF16" -> 4
      [] ft = "MostlyQ4_2" -> 5
      [] ft = "MostlyQ8_0" -> 7
      [] ft = "MostlyQ5_0" -> 8
      [] ft = "MostlyQ5_1" -> 9

\* Result<FileType, ()>
FtOk(ft) == [ok |-> TRUE, v |-> ft]

\* a decoder that takes the codes for contiguous
try_from_contiguous(value) ==
    CASE value = 0 -> FtOk("F32")
      [] value = 1 -> FtOk("MostlyF16")
      [] value = 2 -> FtOk("MostlyQ4_0")
      [] value = 3 -> FtOk("MostlyQ4_1")
      [] value = 4 -> FtOk("MostlyQ4_1SomeF16")
      [] value = 5 -> FtOk("MostlyQ4_2")
      [] value = 6 -> FtOk("MostlyQ8_0")
      [] value = 7 -> FtOk("MostlyQ5_0")
      [] value = 8 -> FtOk("MostlyQ5_1")
      [] OTHER -> [ok |-> FALSE, v |-> "-"]   \* Err(())

\* impl TryFrom<i32> for FileType
try_from(value) ==
    CASE value = 0 -> FtOk("F32")
      [] value = 1 -> FtOk("MostlyF16")
      [] value = 2 -> FtOk("MostlyQ4_0")
      [] value = 3 -> FtOk("MostlyQ4_1")
      [] value = 4 -> FtOk("MostlyQ4_1SomeF16")
      [] value = 5 -> FtOk("MostlyQ4_2")
      [] value = 7 -> FtOk("MostlyQ8_0")
      [] value = 8 -> FtOk("MostlyQ5_0")
      [] value = 9 -> FtOk("MostlyQ5_1")
      [] OTHER -> [ok |-> FALSE, v |-> "-"]   \* Err(())

\* --- paths ---
\* the path given to load, and the i-th further part found next to it
Sibling(i) == [base |-> "model.bin", part |-> i]
ModelPath == Sibling(0)
\* PathBuf::default()
EmptyPath == [base |-> "", part |-> 0]
NoPaths == <<>>

\* --- LoadError ---
NoName == [layer |-> 0 - 1, field |-> "-"]
LoadError(tag) ==
    [tag |-> tag, tensor_name |-> NoName, path |-> EmptyPath, paths |-> NoPaths, ftype |-> 0]
MultipartNotSupported(paths) == [LoadError("MultipartNotSupported") EXCEPT !.paths = paths]
NoParentPath(path) == [LoadError("NoParentPath") EXCEPT !.path = path]
Io == LoadError("Io")
InvalidIntegerConversion == LoadError("InvalidIntegerConversion")
UnsupportedFileType(ftype) == [LoadError("UnsupportedFileType") EXCEPT !.ftype = ftype]
UnknownTensor(name, path) ==
    [LoadError("UnknownTensor") EXCEPT !.tensor_name = name, !.path = path]
InvariantBroken(name, path) ==
    [LoadError("InvariantBroken") EXCEPT !.tensor_name = name, !.path = path]
LoadPending == LoadError("-")
LoadOk == LoadError("Ok")

\* --- LoadProgress ---
HyperparametersLoaded ==
    [kind |-> "HyperparametersLoaded", bytes |-> 0, current_tensor |-> 0, tensor_count |-> 0]
ContextSize(bytes) ==
    [kind |-> "ContextSize", bytes |-> bytes, current_tensor |-> 0, tensor_count |-> 0]
TensorLoaded(current, count) ==
    [kind |-> "TensorLoaded", bytes |-> 0, current_tensor |-> current, tensor_count |-> count]
Loaded(file_size, count) ==
    [kind |-> "Loaded", bytes |-> file_size, current_tensor |-> 0, tensor_count |-> count]

\* the callback is handed the events one after the other
emit_first(evs, e) == <<e>> \o evs
emit(evs, e) == Append(evs, e)

\* --- the tensors BLOOM is made of ---
GlobalTensors ==
    <<"tok_embeddings.weight", "norm.weight", "norm.bias",
      "output_norm.weight", "output_norm.bias", "output.weight">>
LayerTensors ==
    <<"attention_norm.weight", "attention_norm.bias",
      "attention.query_key_value.weight", "attention.query_key_value.bias",
      "attention.wo.weight", "attention.wo.bias",
      "ffn_norm.weight", "ffn_norm.bias",
      "feed_forward.w1.weight", "feed_forward.w1.bias",
      "feed_forward.w2.weight", "feed_forward.w2.bias">>

\* "name" for a global tensor, "layers.{i}.name" for a tensor of layer i
Global(field) == [layer |-> 0 - 1, field |-> field]
Layers(i, field) == [layer |-> i, field |-> field]

\* a loop over the layers that starts one too late
BloomLoads_from_one(nl) ==
    [k \in 1 .. (Len(GlobalTensors) + Len(LayerTensors) * (nl - 1)) |->
        IF k <= Len(GlobalTensors)
        THEN Global(GlobalTensors[k])
        ELSE Layers(1 + ((k - Len(GlobalTensors) - 1) \div Len(LayerTensors)),
                    LayerTensors[((k - Len(GlobalTensors) - 1) % Len(LayerTensors)) + 1])]

\* the loads of Bloom::new in program order, for a model of nl layers
BloomLoads(nl) ==
    [k \in 1 .. (Len(GlobalTensors) + Len(LayerTensors) * nl) |->
        IF k <= Len(GlobalTensors)
        THEN Global(GlobalTensors[k])
        ELSE Layers((k - Len(GlobalTensors) - 1) \div Len(LayerTensors),
                    LayerTensors[((k - Len(GlobalTensors) - 1) % Len(LayerTensors)) + 1])]

\* --- the model file ---
\* a tensor record of the file: biases and norms have one dimension, the
\* matrices two
TensorLoadInfo(name) ==
    LET OneDimensional ==
            {"norm.weight", "norm.bias", "output_norm.weight", "output_norm.bias",
             "attention_norm.weight", "attention_norm.bias",
             "attention.query_key_value.bias", "attention.wo.bias",
             "ffn_norm.weight", "ffn_norm.bias",
             "feed_forward.w1.bias", "feed_forward.w2.bias"}
        dims == IF name.field \in OneDimensional THEN <<n_embd>> ELSE <<n_embd, n_embd>>
    IN [name |-> name, n_dims |-> Len(dims), dims |-> dims, element_type |-> "F32"]

\* the six i32 of the BLOOM hyperparameters, in file order
FileHyperparameters(ftype) ==
    [n_vocab |-> n_vocab, n_embd |-> n_embd, n_mult |-> 1, n_head |-> 1,
     n_layer |-> n_layer, ftype |-> ftype]

\* the codes a file may carry in its ftype field
MaxFtypeCode == 10
FtypeCodes == (0 - 1) .. MaxFtypeCode

\* FileType's #[default] is MostlyF16
DefaultFtype == i32_from("MostlyF16")

BloomFile(ftype) ==
    [magic_ok |-> TRUE,
     container_type |-> "Ggjt",
     hyperparameters |-> FileHyperparameters(ftype),
     vocabulary |-> [i \in 1 .. n_vocab |-> [token |-> i, score |-> 0]],
     tensors |-> [k \in 1 .. Len(BloomLoads(n_layer)) |-> TensorLoadInfo(BloomLoads(n_layer)[k])],
     truncated |-> FALSE]

\* the files a load may meet: every ftype code, a wrong magic, an older
\* container, a negative size, a tensor missing from the index (the first or
\* the last), a payload cut short
Files ==
    LET Without(seq, i) == SubSeq(seq, 1, i - 1) \o SubSeq(seq, i + 1, Len(seq))
        MissingPositions == {1, Len(BloomLoads(n_layer))}
    IN
    { BloomFile(c) : c \in FtypeCodes }
    \cup { [BloomFile(DefaultFtype) EXCEPT !.magic_ok = FALSE] }
    \cup { [BloomFile(DefaultFtype) EXCEPT !.container_type = "Ggml"] }
    \cup { [BloomFile(DefaultFtype) EXCEPT !.hyperparameters.n_head = 0 - 1] }
    \cup { [BloomFile(DefaultFtype) EXCEPT !.tensors = Without(@, i)] : i \in MissingPositions }
    \cup { [BloomFile(DefaultFtype) EXCEPT !.truncated = TRUE] }

\* --- what util::find_all_model_files may return ---
MaxSiblings == 2
Found(paths) == [err |-> "-", paths |-> paths]

\* --- the inputs of one load ---
\* known_model is the architecture load is instantiated with: BLOOM, or any
\* other implementation of KnownModel, which drives the TensorLoader as it likes
LoadInput(found, open_ok, reopen_ok, file, prefer_mmap, m) ==
    [found |-> found, open_ok |-> open_ok, reopen_ok |-> reopen_ok, file |-> file,
     prefer_mmap |-> prefer_mmap, known_model |-> m]

\* FindResults: any number of sibling paths, or one of the two errors of the
\* search
LoadInputs ==
    LET FindResults ==
            { Found([i \in 1 .. k |-> Sibling(i - 1)]) : k \in 0 .. MaxSiblings }
            \cup { [err |-> "NoParentPath", paths |-> NoPaths],
                   [err |-> "Io", paths |-> NoPaths] }
    IN
    { LoadInput(f, TRUE, TRUE, BloomFile(DefaultFtype), TRUE, "Bloom") : f \in FindResults }
    \cup { LoadInput(Found(NoPaths), FALSE, FALSE, BloomFile(DefaultFtype), TRUE, "Bloom") }
    \cup { LoadInput(Found(<<ModelPath>>), o, r, BloomFile(DefaultFtype), TRUE, "Bloom") :
             o \in BOOLEAN, r \in BOOLEAN }
    \cup { LoadInput(Found(<<ModelPath>>), TRUE, TRUE, file, mm, "Bloom") :
             file \in Files, mm \in BOOLEAN }
    \cup { LoadInput(Found(<<ModelPath>>), TRUE, TRUE, BloomFile(DefaultFtype), mm, "Other") :
             mm \in BOOLEAN }

\* --- the Loader handler the codec drives ---
EmptyMap == <<>>

\* Hp::default()
DefaultHyperparameters ==
    [n_vocab |-> 0, n_embd |-> 0, n_mult |-> 0, n_head |-> 0, n_layer |-> 0,
     file_type |-> "MostlyF16"]

\* Loader::new
Loader_new ==
    [container_type |-> "Ggjt",
     hyperparameters |-> DefaultHyperparameters,
     vocabulary |-> <<>>,
     tensors |-> EmptyMap]

\* Hyperparameters::read of BLOOM: five sizes (i32 to usize), then the file type
Hyperparameters_read(hp) ==
    IF hp.n_vocab < 0 \/ hp.n_embd < 0 \/ hp.n_mult < 0 \/ hp.n_head < 0 \/ hp.n_layer < 0
    THEN [err |-> InvalidIntegerConversion, v |-> DefaultHyperparameters]
    ELSE IF ~try_from(hp.ftype).ok
         THEN [err |-> UnsupportedFileType(hp.ftype), v |-> DefaultHyperparameters]
         ELSE [err |-> LoadOk,
               v |-> [n_vocab |-> hp.n_vocab, n_embd |-> hp.n_embd, n_mult |-> hp.n_mult,
                      n_head |-> hp.n_head, n_layer |-> hp.n_layer,
                      file_type |-> try_from(hp.ftype).v]]

\* Hyperparameters::write of BLOOM, the six i32 it puts out
Hyperparameters_write(h) ==
    [n_vocab |-> h.n_vocab, n_embd |-> h.n_embd, n_mult |-> h.n_mult,
     n_head |-> h.n_head, n_layer |-> h.n_layer, ftype |-> i32_from(h.file_type)]

\* HashMap::insert
insert(map, key, value) == (key :> value) @@ map

RECURSIVE product(_)
product(dims) == IF dims = <<>> THEN 1 ELSE dims[1] * product(Tail(dims))

\* TensorLoadInfo::calc_size: the element count times the bytes of one element
calc_size(info) ==
    LET type_size == 4
    IN product(info.dims) * type_size

\* what a tensor takes of an arena besides its payload
tensor_overhead ==
    LET C_TYPE_SIZE == 176   \* ggml::Tensor::C_TYPE_SIZE
        OBJECT_SIZE == 32    \* ggml::OBJECT_SIZE
    IN C_TYPE_SIZE + OBJECT_SIZE

\* Context::new_tensor_1d / _2d / _3d: the bytes of the arena the new tensor
\* takes; a context made without allocation holds no payload
new_tensor(ne, alloc) ==
    tensor_overhead + (IF alloc THEN calc_size([dims |-> ne]) ELSE 0)

\* an arena sized as if every payload were mapped
ctx_size_mapped(tensors, names, use_mmap) == Cardinality(names) * tensor_overhead

\* lines 332-339: the arena holds, per tensor of the index, the object
\* overhead and, unless mapped, the payload
RECURSIVE ctx_size(_, _, _)
ctx_size(tensors, names, use_mmap) ==
    IF names = {} THEN 0
    ELSE LET name == CHOOSE x \in names : TRUE
         IN tensor_overhead
            + (IF use_mmap THEN 0 ELSE calc_size(tensors[name]))
            + ctx_size(tensors, names \ {name}, use_mmap)

\* file.metadata()?.len(): the payloads and a header
RECURSIVE file_size(_)
file_size(infos) == IF infos = <<>> THEN 8 ELSE calc_size(infos[1]) + file_size(Tail(infos))

\* --- MmapCompatibleLoader ---
\* no file
NoFile ==
    [magic_ok |-> FALSE, container_type |-> "Ggml",
     hyperparameters |-> FileHyperparameters(DefaultFtype),
     vocabulary |-> <<>>, tensors |-> <<>>, truncated |-> FALSE]

NoTensorLoader ==
    [path |-> EmptyPath, file |-> NoFile, tensors |-> EmptyMap,
     context |-> 0, used |-> 0, mmap |-> FALSE, loaded_tensors |-> EmptyMap]

\* Err(e): the loader as it was, nothing announced
Failed(t, e) ==
    [err |-> e, tl |-> t,
     event |-> [kind |-> "-", bytes |-> 0, current_tensor |-> 0, tensor_count |-> 0]]

\* a loader that does not compare the dimension counts
load_manual_unchecked(t, name, ne) ==
    IF name \notin DOMAIN t.tensors
    THEN Failed(t, UnknownTensor(name, t.path))
    ELSE LET loaded == insert(t.loaded_tensors, name,
                              [ne |-> ne, element_type |-> t.tensors[name].element_type])
         IN [err |-> LoadOk,
             tl |-> [t EXCEPT !.loaded_tensors = loaded,
                              !.used = @ + new_tensor(ne, ~t.mmap)],
             event |-> TensorLoaded(Cardinality(DOMAIN loaded), Cardinality(DOMAIN t.tensors))]

\* TensorLoader::load_manual, lines 375-431
load_manual(t, name, ne) ==
    IF name \notin DOMAIN t.tensors
    THEN Failed(t, UnknownTensor(name, t.path))
    ELSE LET info == t.tensors[name]
             dims == Len(ne)
         IN IF dims # info.n_dims
            THEN Failed(t, InvariantBroken(name, t.path))
            ELSE IF dims \notin {1, 2, 3}
            THEN Failed(t, InvariantBroken(name, t.path))
            ELSE IF ~t.mmap /\ t.file.truncated
            THEN Failed(t, Io)
            ELSE LET loaded == insert(t.loaded_tensors, name,
                                      [ne |-> ne, element_type |-> info.element_type])
                 IN [err |-> LoadOk,
                     tl |-> [t EXCEPT !.loaded_tensors = loaded,
                                      !.used = @ + new_tensor(ne, ~t.mmap)],
                     event |-> TensorLoaded(Cardinality(DOMAIN loaded),
                                            Cardinality(DOMAIN t.tensors))]

\* TensorLoader::load, lines 363-373
load(t, name) ==
    IF name \notin DOMAIN t.tensors
    THEN Failed(t, UnknownTensor(name, EmptyPath))
    ELSE load_manual(t, name, t.tensors[name].dims)

\* --- KnownModel::new ---
CallLoad(name) == [op |-> "load", name |-> name, ne |-> <<>>]
CallFinish == [op |-> "finish", name |-> NoName, ne |-> <<>>]

NewBuilder == [step |-> 1, calls |-> <<>>]

\* what another architecture may ask the TensorLoader for
MaxOtherCalls == 2
OtherNames == {Global("tok_embeddings.weight"), Global("norm.weight"), Global("lm_head.weight")}

\* --- load, step by step ---
LoadIdle ==
    /\ load_input = LoadInput(Found(NoPaths), FALSE, FALSE, NoFile, FALSE, "Bloom")
    /\ lpc = "idle"
    /\ loader = Loader_new
    /\ tl = NoTensorLoader
    /\ progress = <<>>
    /\ load_result = LoadPending
    /\ cursor = 0
    /\ builder = NewBuilder


\* load returns the error e
LoadFails(e) ==
    /\ lpc' = "failed"
    /\ load_result' = e

\* a check that lets two parts through
more_than_two_parts(paths) == Len(paths) > 2

\* a check that lets an empty list of parts through
more_than_one_part(paths) == Len(paths) > 1

\* line 306
not_single_part(paths) == Len(paths) # 1

\* lines 305-308: the sibling search and the single-part check
LoadFindFiles ==
    /\ lpc = "start"
    /\ LET found == load_input.found
       IN IF found.err = "NoParentPath" THEN LoadFails(NoParentPath(ModelPath))
          ELSE IF found.err = "Io" THEN LoadFails(Io)
          ELSE IF not_single_part(found.paths)
               THEN LoadFails(MultipartNotSupported(found.paths))
               ELSE lpc' = "open" /\ UNCHANGED load_result
    /\ UNCHANGED <<load_input, loader, tl, progress, cursor, builder, caller_vars, eval_vars, main_vars>>

\* lines 310-316: the file is opened and the Loader made
LoadOpenFile ==
    /\ lpc = "open"
    /\ IF load_input.open_ok
       THEN lpc' = "container_type" /\ loader' = Loader_new /\ UNCHANGED load_result
       ELSE LoadFails([LoadError("OpenFileFailed") EXCEPT !.path = ModelPath]) /\ UNCHANGED loader
    /\ UNCHANGED <<load_input, tl, progress, cursor, builder, caller_vars, eval_vars, main_vars>>

\* ggml::format::load reads the magic; Loader::container_type, lines 490-493
LoaderContainerType ==
    /\ lpc = "container_type"
    /\ IF load_input.file.magic_ok
       THEN /\ loader' = [loader EXCEPT !.container_type = load_input.file.container_type]
            /\ lpc' = "read_hyperparameters"
            /\ UNCHANGED load_result
       ELSE LoadFails([LoadError("InvalidMagic") EXCEPT !.path = ModelPath]) /\ UNCHANGED loader
    /\ UNCHANGED <<load_input, tl, progress, cursor, builder, caller_vars, eval_vars, main_vars>>

\* Loader::read_hyperparameters, lines 505-518
LoaderReadHyperparameters ==
    /\ lpc = "read_hyperparameters"
    /\ LET r == Hyperparameters_read(load_input.file.hyperparameters)
       IN IF r.err = LoadOk
          THEN /\ loader' = [loader EXCEPT !.hyperparameters = r.v]
               /\ progress' = emit(progress, HyperparametersLoaded)
               /\ lpc' = IF r.v.n_vocab > 0 THEN "vocabulary_token" ELSE "tensor_buffer"
               /\ UNCHANGED load_result
          ELSE LoadFails(r.err) /\ UNCHANGED <<loader, progress>>
    /\ cursor' = 0
    /\ UNCHANGED <<load_input, tl, builder, caller_vars, eval_vars, main_vars>>

\* Loader::vocabulary_token, lines 495-503, for the token at the cursor
LoaderVocabularyToken ==
    /\ lpc = "vocabulary_token"
    /\ loader' = [loader EXCEPT
                    !.vocabulary =   \* Vocabulary::push_token
                        LET tk == load_input.file.vocabulary[cursor + 1]
                        IN Append(@, [id |-> cursor, token |-> tk.token, score |-> tk.score])]
    /\ IF cursor + 1 < loader.hyperparameters.n_vocab
       THEN cursor' = cursor + 1 /\ UNCHANGED lpc
       ELSE cursor' = 0 /\ lpc' = "tensor_buffer"
    /\ UNCHANGED <<load_input, tl, progress, load_result, builder, caller_vars, eval_vars, main_vars>>

\* Loader::tensor_buffer, lines 520-523, for the tensor record at the cursor
LoaderTensorBuffer ==
    /\ lpc = "tensor_buffer"
    /\ LET info == load_input.file.tensors[cursor + 1]
       IN loader' = [loader EXCEPT !.tensors = insert(@, info.name, info)]
    /\ IF cursor + 1 < Len(load_input.file.tensors)
       THEN cursor' = cursor + 1 /\ UNCHANGED lpc
       ELSE cursor' = 0 /\ lpc' = "context"
    /\ UNCHANGED <<load_input, tl, progress, load_result, builder, caller_vars, eval_vars, main_vars>>

\* lines 321-351 and 438-447: the arena is sized and announced, the file is
\* opened again (and mapped), the TensorLoader is made
LoadContext ==
    /\ lpc = "context"
    /\ LET support_mmap == loader.container_type = "Ggjt"   \* ContainerType::support_mmap
           use_mmap == load_input.prefer_mmap /\ support_mmap
           bytes == ctx_size(loader.tensors, DOMAIN loader.tensors, use_mmap)
       IN /\ progress' = emit(progress, ContextSize(bytes))
          /\ IF load_input.reopen_ok
             THEN /\ tl' = [path |-> ModelPath, file |-> load_input.file,
                            tensors |-> loader.tensors, context |-> bytes, used |-> 0,
                            mmap |-> use_mmap, loaded_tensors |-> EmptyMap]
                  /\ lpc' = "new"
                  /\ UNCHANGED load_result
             ELSE LoadFails(Io) /\ UNCHANGED tl
    /\ builder' = NewBuilder
    /\ UNCHANGED <<load_input, loader, cursor, caller_vars, eval_vars, main_vars>>

\* a call of the builder on the TensorLoader: the tensor is registered and
\* announced, or the error goes up through `?` (bloom lib.rs:66-96, loader.rs:449)
Request(c, r) ==
    /\ builder' = [builder EXCEPT !.step = @ + 1, !.calls = Append(@, c)]
    /\ IF r.err = LoadOk
       THEN /\ tl' = r.tl
            /\ progress' = emit(progress, r.event)
            /\ UNCHANGED <<lpc, load_result>>
       ELSE LoadFails(r.err) /\ UNCHANGED <<tl, progress>>
    /\ UNCHANGED <<load_input, loader, cursor, caller_vars, eval_vars, main_vars>>

\* Bloom::new, lines 66-100: the next tl.load
BloomLoad ==
    /\ lpc = "new"
    /\ load_input.known_model = "Bloom"
    /\ builder.step <= Len(BloomLoads(loader.hyperparameters.n_layer))
    /\ LET name == BloomLoads(loader.hyperparameters.n_layer)[builder.step]
       IN Request(CallLoad(name), load(tl, name))

\* Bloom::new, lines 102-126: tl.finish() and the model
BloomFinish ==
    /\ lpc = "new"
    /\ load_input.known_model = "Bloom"
    /\ builder.step > Len(BloomLoads(loader.hyperparameters.n_layer))
    /\ builder' = [builder EXCEPT !.calls = Append(@, CallFinish)]
    /\ lpc' = "built"
    /\ UNCHANGED <<load_input, loader, tl, progress, load_result, cursor, caller_vars, eval_vars, main_vars>>

\* another KnownModel::new asks for a tensor by name
OtherLoad ==
    /\ lpc = "new"
    /\ load_input.known_model = "Other"
    /\ builder.step <= MaxOtherCalls
    /\ \E name \in OtherNames : Request(CallLoad(name), load(tl, name))

\* another KnownModel::new asks for a tensor by name and shape
OtherLoadManual ==
    /\ lpc = "new"
    /\ load_input.known_model = "Other"
    /\ builder.step <= MaxOtherCalls
    /\ \E name \in OtherNames : \E ne \in {<<n_embd>>, <<n_embd, n_embd>>, <<n_embd, n_embd + 1>>} :
          Request([op |-> "load_manual", name |-> name, ne |-> ne], load_manual(tl, name, ne))

\* and finishes
OtherFinish ==
    /\ lpc = "new"
    /\ load_input.known_model = "Other"
    /\ builder' = [builder EXCEPT !.calls = Append(@, CallFinish)]
    /\ lpc' = "built"
    /\ UNCHANGED <<load_input, loader, tl, progress, load_result, cursor, caller_vars, eval_vars, main_vars>>

\* lines 451-456: the model is built, Loaded is announced, load returns it
LoadLoaded ==
    /\ lpc = "built"
    /\ progress' = emit(progress, Loaded(file_size(load_input.file.tensors),
                                         Cardinality(DOMAIN loader.tensors)))
    /\ load_result' = LoadOk
    /\ lpc' = "loaded"
    /\ UNCHANGED <<load_input, loader, tl, cursor, builder, caller_vars, eval_vars, main_vars>>

LoadNext ==
    \/ LoadFindFiles
    \/ LoadOpenFile
    \/ LoaderContainerType
    \/ LoaderReadHyperparameters
    \/ LoaderVocabularyToken
    \/ LoaderTensorBuffer
    \/ LoadContext
    \/ BloomLoad
    \/ BloomFinish
    \/ OtherLoad
    \/ OtherLoadManual
    \/ OtherFinish
    \/ LoadLoaded

(***************************************************************************)
(* Bloom::evaluate (src/crates/models/bloom/src/lib.rs, lines 139-428),    *)
(* call by call: threads that share one model, each with a session of its  *)
(* own, and the outputs each call was asked for.                           *)
(***************************************************************************)
Threads == {1, 2}

\* the Bloom the sessions are opened against
BloomModel ==
    [hyperparameters |-> [n_vocab |-> n_vocab, n_embd |-> n_embd, n_mult |-> 1,
                          n_head |-> 1, n_layer |-> n_layer, file_type |-> "MostlyF16"],
     n_context_tokens |-> n_context_tokens]


\* the batches a thread hands to evaluate, and how many calls the threads
\* make between them
MaxBatch == 2
MaxEvaluations == 3

\* the tensors of the graph once it has run; the values stand for the f32
\* the kernels compute, a fixed function of token, position and channel.
\* embd holds the input ids (line 172-175), output_norm what lines 395-406
\* compute, lm_head what line 416 computes
Graph(input_tokens, n_past) ==
    LET n == Len(input_tokens)
        NormOut(tk, pos, c) == 200 + tk + n_vocab * (c + n_embd * pos)
    IN [embd |-> input_tokens,
        output_norm |-> [i \in 1 .. (n_embd * n) |->
                            NormOut(input_tokens[((i - 1) \div n_embd) + 1],
                                    n_past + ((i - 1) \div n_embd), (i - 1) % n_embd)],
        lm_head |-> [i \in 1 .. (n_vocab * n) |->
                        Logits(input_tokens[((i - 1) \div n_vocab) + 1],
                               n_past + ((i - 1) \div n_vocab) + 1)[((i - 1) % n_vocab) + 1]]]

\* common::extract_logits: all n_vocab * n values of the tensor it is handed
extract_logits(request, tensor, nv, n) ==
    IF request.all_logits.some
    THEN [request EXCEPT !.all_logits = Some(SubSeq(tensor, 1, nv * n))]
    ELSE request

\* common::extract_embeddings: n_embd * n values read from the data of the
\* tensor it is handed; junk stands for what lies beyond a shorter tensor
extract_embeddings(request, tensor, ne, n, junk) ==
    IF request.embeddings.some
    THEN [request EXCEPT !.embeddings =
            Some([i \in 1 .. (ne * n) |-> IF i <= Len(tensor) THEN tensor[i] ELSE junk])]
    ELSE request

\* the write of one layer that starts at the beginning of the layer's slab,
\* whatever is committed already
store_kv_layer_unshifted(mem, il, n_past, batch, which) ==
    [i \in 1 .. n_mem |->
        IF Len(batch) >= 1 /\ (i - 1) \in kv_view(il, 0, Len(batch))
        THEN LET e == (i - 1) - n_embd * (il * n_context_tokens)
             IN IF which = "k"
                THEN KCur(batch[(e \div n_embd) + 1], il, e % n_embd)
                ELSE VCur(batch[(e \div n_embd) + 1], il, e % n_embd)
        ELSE mem[i]]

\* the write of one layer that forgets the layer's slab
store_kv_layer_zero(mem, il, n_past, batch, which) ==
    [i \in 1 .. n_mem |->
        IF Len(batch) >= 1 /\ (i - 1) \in kv_view(0, n_past, Len(batch))
        THEN LET e == (i - 1) - n_embd * n_past
             IN IF which = "k"
                THEN KCur(batch[(e \div n_embd) + 1], il, e % n_embd)
                ELSE VCur(batch[(e \div n_embd) + 1], il, e % n_embd)
        ELSE mem[i]]

\* lines 240-256, when the graph runs: layer il copies its n columns into
\* its view of the cache
store_kv_layer(mem, il, n_past, batch, which) ==
    [i \in 1 .. n_mem |->
        IF Len(batch) >= 1 /\ (i - 1) \in kv_view(il, n_past, Len(batch))
        THEN LET e == (i - 1) - n_embd * (il * n_context_tokens + n_past)
             IN IF which = "k"
                THEN KCur(batch[(e \div n_embd) + 1], il, e % n_embd)
                ELSE VCur(batch[(e \div n_embd) + 1], il, e % n_embd)
        ELSE mem[i]]

\* lines 330-335, "split cached V into n_head heads": the view_3d of
\* memory_v with ne = (n_past + n, n_embd / n_head, n_head), strides
\* nb1 = n_ctx and nb2 = n_ctx * n_embd / n_head elements, starting at element
\* il * n_ctx * n_embd; what the attention of the layer reads at (p, d, h).
\* junk stands for what a read beyond the tensor returns
big_v(memory_v, il, n_past, n, n_head, junk) ==
    [x \in (0 .. (n_past + n - 1)) \X (0 .. ((n_embd \div n_head) - 1)) \X (0 .. (n_head - 1)) |->
        LET off == il * n_context_tokens * n_embd
                   + x[1] + x[2] * n_context_tokens
                   + x[3] * ((n_context_tokens * n_embd) \div n_head)
        IN IF off < n_mem THEN memory_v[off + 1] ELSE junk]

\* the view of layer il ends beyond the tensor
layer_out_of_bounds(il, n_past, n) == \E off \in kv_view(il, n_past, n) : off >= n_mem

\* the evaluate calls made so far
RECURSIVE evaluations(_, _)
evaluations(ths, ts) ==
    IF ts = {} THEN 0
    ELSE LET t == CHOOSE x \in ts : TRUE
         IN ths[t].evaluations + evaluations(ths, ts \ {t})

\* what the first lines of a call know when they size the scratch buffer: the
\* session's mem_per_token and the batch length n; buf_size 0 until computed
Scratch(mem_per_token, n) == [mem_per_token |-> mem_per_token, n |-> n, buf_size |-> 0]

\* a scratch buffer that is never enlarged
buf_size_fixed(mem_per_token, n) == GiB

\* lines 163-167: the scratch buffer of one call, in bytes. The f64 product
\* 1.1 * mem_per_token * n cast to usize is, below 2^53, the product plus
\* its tenth, rounded down
buf_size(mem_per_token, n) ==
    LET needed == mem_per_token * n
    IN IF mem_per_token > 0 /\ needed > GiB THEN needed + (needed \div 10) ELSE GiB

\* the longest batch the sizing is tried on
MaxScratchBatch == 4

\* lines 160-167 for one call
ScratchSize ==
    /\ scratch.buf_size = 0
    /\ scratch' = [scratch EXCEPT !.buf_size = buf_size(scratch.mem_per_token, scratch.n)]
    /\ UNCHANGED <<model, sessions, threads, caller_vars, load_vars, main_vars>>

\* no session is opened for a thread, no thread runs
EvalIdle ==
    /\ model = BloomModel
    /\ sessions = <<>>
    /\ threads = <<>>
    /\ scratch = Scratch(0, 0)


\* lines 146-187: the call begins; n and n_past are read, the graph is built
EvaluateBegin(t) ==
    /\ threads[t].pc = "idle"
    /\ evaluations(threads, Threads) < MaxEvaluations
    /\ \E batch \in { Text(k) : k \in 0 .. MaxBatch } :
       \E request \in {[all_logits |-> None, embeddings |-> None],   \* EvaluateOutputRequest
                         [all_logits |-> Some(<<>>), embeddings |-> Some(<<>>)]} :
          threads' = [threads EXCEPT ![t] =
                        [pc |-> "compute", input_tokens |-> batch,
                         n_past |-> sessions[t].n_past, il |-> 0,
                         output_request |-> request, before |-> sessions[t],
                         big_v |-> <<>>, evaluations |-> @.evaluations + 1]]
    /\ UNCHANGED <<model, sessions, scratch, caller_vars, load_vars, main_vars>>

\* line 421, graph_compute: the next layer stores its keys and values. A
\* write outside the tensors is undefined behaviour: the process may die,
\* or go on
EvaluateLayer(t) ==
    /\ threads[t].pc = "compute"
    /\ threads[t].il < model.hyperparameters.n_layer
    /\ LET th == threads[t]
           s == sessions[t]
           s1 == [s EXCEPT
                    !.memory_k = store_kv_layer(@, th.il, th.n_past, th.input_tokens, "k"),
                    !.memory_v = store_kv_layer(@, th.il, th.n_past, th.input_tokens, "v")]
           n == Len(th.input_tokens)
           in_bounds == th.n_past + n <= model.n_context_tokens
       IN \/ /\ sessions' = [sessions EXCEPT ![t] = s1]
             /\ \E junk \in (IF in_bounds THEN {0} ELSE {0, 1}) :
                   threads' = [threads EXCEPT
                                 ![t].il = @ + 1,
                                 ![t].big_v = big_v(s1.memory_v, th.il, th.n_past, n,
                                                    model.hyperparameters.n_head, junk)]
          \/ /\ layer_out_of_bounds(th.il, th.n_past, Len(th.input_tokens))
             /\ threads' = [u \in Threads |-> [threads[u] EXCEPT !.pc = "aborted"]]
             /\ UNCHANGED sessions
    /\ UNCHANGED <<model, scratch, caller_vars, load_vars, main_vars>>

\* lines 423-427: the last logits, the requested outputs, the session counters
EvaluateFinish(t) ==
    /\ threads[t].pc = "compute"
    /\ threads[t].il = model.hyperparameters.n_layer
    /\ LET th == threads[t]
           n == Len(th.input_tokens)
           g == Graph(th.input_tokens, th.n_past)
       IN \E junk \in {0, 1} :   \* what a read beyond the end of a tensor's data may return
            /\ sessions' = [sessions EXCEPT ![t] =
                              update_session(read_last_token(@, th.input_tokens), n)]
            /\ threads' = [threads EXCEPT
                             ![t].pc = "idle",
                             ![t].big_v = <<>>,
                             ![t].output_request =
                                extract_embeddings(
                                    extract_logits(@, g.lm_head, model.hyperparameters.n_vocab, n),
                                    g.embd, model.hyperparameters.n_embd, n, junk)]
    /\ UNCHANGED <<model, scratch, caller_vars, load_vars, main_vars>>

EvalNext ==
    \/ \E t \in Threads : EvaluateBegin(t)
    \/ \E t \in Threads : EvaluateLayer(t)
    \/ \E t \in Threads : EvaluateFinish(t)

(***************************************************************************)
(* The commands of the binary (src/binaries/llm-cli/src/main.rs).          *)
(***************************************************************************)
\* no command of the binary runs
MainIdle ==
    /\ info_log = <<>>
    /\ chat_mode = FALSE
    /\ session_backup = None
    /\ repl = [pc |-> "off", lines |-> 0, num_predict |-> None, before |-> None]

\* --- info, lines 97-128: a file is read through a fresh Loader and what the
\* Loader holds is logged ---
\* HashMap::iter visits the entries in the order the map's hasher gives them,
\* and HashMap::default() keys its hasher at random (RandomState): of these
\* orders, the rotations of the order of insertion
MaxSeed == 1
iter(map, inserted, seed) ==
    LET keys == SelectSeq(inserted, LAMBDA k : k \in DOMAIN map)
        r == IF keys = <<>> THEN 0 ELSE seed % Len(keys)
    IN SubSeq(keys, r + 1, Len(keys)) \o SubSeq(keys, 1, r)

\* the runs of the command over one file
MaxRuns == 2

\* lines 103-116: load has returned; its error goes up through `?`, otherwise
\* the container type, the hyperparameters, the tensors and the vocabulary
\* are logged
InfoLog ==
    /\ lpc \in {"context", "failed"}
    /\ \E seed \in 0 .. MaxSeed :
          LET names == [i \in DOMAIN load_input.file.tensors |-> load_input.file.tensors[i].name]
              shown == IF lpc = "failed" THEN Loader_new ELSE loader
          IN info_log' = Append(info_log,
                                [result |-> load_result,
                                 container_type |-> shown.container_type,
                                 hyperparameters |-> shown.hyperparameters,
                                 tensors |-> [i \in DOMAIN iter(shown.tensors, names, seed) |->
                                                LET name == iter(shown.tensors, names, seed)[i]
                                                IN <<name, shown.tensors[name].element_type>>],
                                 vocabulary |-> shown.vocabulary])
    /\ lpc' = "logged"
    /\ UNCHANGED <<load_input, loader, tl, progress, load_result, cursor, builder,
                   chat_mode, session_backup, repl, caller_vars, eval_vars>>

\* the command is run again on the same file
InfoRun ==
    /\ lpc = "logged"
    /\ Len(info_log) < MaxRuns
    /\ lpc' = "open"
    /\ load_result' = LoadPending
    /\ cursor' = 0
    /\ UNCHANGED <<load_input, loader, tl, progress, builder, main_vars, caller_vars, eval_vars>>

InfoNext ==
    \/ LoadOpenFile
    \/ LoaderContainerType
    \/ LoaderReadHyperparameters
    \/ LoaderVocabularyToken
    \/ LoaderTensorBuffer
    \/ InfoLog
    \/ InfoRun

\* --- interactive, lines 162-242: the read loop of the repl and chat
\* commands ---
\* the lines read in one run
MaxLines == 2

\* InferenceSession::clone: a session of its own with the same contents
clone(s) ==
    [params |-> s.params, n_past |-> s.n_past, mem_per_token |-> s.mem_per_token,
     tokens |-> s.tokens, last_logits |-> s.last_logits,
     memory_k |-> s.memory_k, memory_v |-> s.memory_v]

\* a backup that is never taken
backup_never(chat, s) == None

\* lines 185-189: the backup taken when a line has been read
backup(chat, s) == IF chat THEN None ELSE Some(clone(s))

\* the callbacks of the command are closures that return Ok(()), their error
\* type is Infallible
infallible(evs) == \A i \in DOMAIN evs : evs[i].res \in {"-", "ok"}

\* lines 181-205: a line is read, the backup is taken, feed_prompt is called
\* on the line
InteractiveReadLine ==
    /\ repl.pc = "readline"
    /\ repl.lines < MaxLines
    /\ \E line \in Prompts :
          /\ Len(session.tokens) + Len(line.ids) + 1 <= MaxTokens
          /\ Begin("feed_prompt", line, None, "fp_tokenize")
    /\ session_backup' = backup(chat_mode, session)
    /\ repl' = [repl EXCEPT !.pc = "feed", !.lines = @ + 1, !.before = Some(session)]
    /\ UNCHANGED <<info_log, chat_mode>>

\* lines 207-221: feed_prompt has returned, whatever it returned;
\* inference_with_prompt is called with an empty prompt
InteractiveInference ==
    /\ repl.pc = "feed"
    /\ Begin("inference_with_prompt", NoPrompt, repl.num_predict, "iwp_playback")
    /\ repl' = [repl EXCEPT !.pc = "inference"]
    /\ UNCHANGED <<info_log, chat_mode, session_backup>>

\* lines 224-230: inference_with_prompt has returned, whatever it returned;
\* the backup, if there is one, becomes the session
InteractiveRestore ==
    /\ repl.pc = "inference"
    /\ pc = "idle"
    /\ session' = IF session_backup.some THEN session_backup.v ELSE session
    /\ session_backup' = None
    /\ repl' = [repl EXCEPT !.pc = "readline"]
    /\ UNCHANGED <<params, pc, call, locals, result, events, fp_start, session0, n_calls,
                   writer, snapshot, info_log, chat_mode, load_vars, eval_vars>>

\* lines 232-234: Eof or Interrupted ends the loop
InteractiveBreak ==
    /\ repl.pc = "readline"
    /\ repl' = [repl EXCEPT !.pc = "exited"]
    /\ UNCHANGED <<info_log, chat_mode, session_backup, caller_vars, load_vars, eval_vars>>

InteractiveNext ==
    \/ InteractiveReadLine
    \/ FeedPromptTokenize
    \/ FeedPromptEvaluate
    \/ FeedPromptToken /\ infallible(events')
    \/ FeedPromptReturn
    \/ InteractiveInference
    \/ InferencePlayBack /\ infallible(events')
    \/ InferencePromptFed
    \/ InferenceLoop
    \/ InferNextTokenSample
    \/ InferNextTokenEvaluate
    \/ InferenceToken /\ infallible(events')
    \/ InteractiveRestore
    \/ InteractiveBreak

(***************************************************************************)
(* The caller drives one session, one call at a time.                      *)
(***************************************************************************)
Next ==
    \/ CallFeedPrompt
    \/ FeedPromptTokenize
    \/ FeedPromptEvaluate
    \/ FeedPromptToken
    \/ FeedPromptReturn
    \/ CallInferNextToken
    \/ InferNextTokenSample
    \/ InferNextTokenEvaluate
    \/ CallInferenceWithPrompt
    \/ InferencePlayBack
    \/ InferencePromptFed
    \/ InferenceLoop
    \/ InferenceToken
    \/ WriteSnapshot
    \/ ReadSnapshot

Init == CallerInit /\ LoadIdle /\ EvalIdle /\ MainIdle

Spec == Init /\ [][Next]_vars

(***************************************************************************)
(* One load of a model file.                                               *)
(***************************************************************************)
CallerIdle == CallerInit /\ params = DefaultParameters

LoadInit ==
    /\ CallerIdle
    /\ EvalIdle
    /\ MainIdle
    /\ load_input \in LoadInputs
    /\ lpc = "start"
    /\ loader = Loader_new
    /\ tl = NoTensorLoader
    /\ progress = <<>>
    /\ load_result = LoadPending
    /\ cursor = 0
    /\ builder = NewBuilder

LoadSpec == LoadInit /\ [][LoadNext]_vars

(***************************************************************************)
(* Threads evaluating on sessions of one model.                            *)
(***************************************************************************)
\* start_session for every thread; no thread is in a call
EvalInit ==
    /\ CallerIdle
    /\ LoadIdle
    /\ MainIdle
    /\ model = BloomModel
    /\ sessions = [t \in Threads |-> InferenceSession_new(DefaultSessionParameters)]
    /\ threads = [t \in Threads |->
                    [pc |-> "idle", input_tokens |-> <<>>, n_past |-> 0, il |-> 0,
                     output_request |-> [all_logits |-> None, embeddings |-> None],
                     before |-> InferenceSession_new(DefaultSessionParameters),
                     big_v |-> <<>>, evaluations |-> 0]]
    /\ scratch = Scratch(0, 0)

EvalSpec == EvalInit /\ [][EvalNext]_vars

(***************************************************************************)
(* Runs of info over one file.                                             *)
(***************************************************************************)
InfoInit ==
    /\ CallerIdle
    /\ EvalIdle
    /\ MainIdle
    /\ lpc = "open"
    /\ loader = Loader_new
    /\ tl = NoTensorLoader
    /\ progress = <<>>
    /\ load_result = LoadPending
    /\ cursor = 0
    /\ builder = NewBuilder
    /\ \E o \in BOOLEAN, file \in Files :
          load_input = LoadInput(Found(<<ModelPath>>), o, TRUE, file, FALSE, "Bloom")

InfoSpec == InfoInit /\ [][InfoNext]_vars

(***************************************************************************)
(* A run of the repl or the chat command.                                  *)
(***************************************************************************)
InteractiveInit ==
    /\ CallerInit
    /\ LoadIdle
    /\ EvalIdle
    /\ info_log = <<>>
    /\ chat_mode \in BOOLEAN
    /\ session_backup = None
    /\ \E num_predict \in MaximumTokenCounts :
          repl = [pc |-> "readline", lines |-> 0, num_predict |-> num_predict, before |-> None]

InteractiveSpec == InteractiveInit /\ [][InteractiveNext]_vars

(***************************************************************************)
(* The sizing of the scratch buffer, over the inputs it may see.           *)
(***************************************************************************)
\* the batch lengths and the measured bytes per token the sizing is tried on:
\* none measured, a few bytes, and the values around each GiB / n; the
\* products stay below 1.5 GiB
ScratchInit ==
    /\ CallerIdle
    /\ LoadIdle
    /\ model = BloomModel
    /\ sessions = <<>>
    /\ threads = <<>>
    /\ scratch \in
          LET ns == 0 .. MaxScratchBatch
              ms == {0, 1, 3} \cup { (GiB \div k) + d : k \in 1 .. MaxScratchBatch, d \in -2 .. 2 }
          IN { Scratch(m, n) : <<m, n>> \in { x \in ms \X ns : x[2] = 0 \/ x[1] <= (GiB + GiB \div 2) \div x[2] } }
    /\ MainIdle

ScratchSpec == ScratchInit /\ [][ScratchSize]_vars

(***************************************************************************)
(* Vocabulary of the properties.                                           *)
(***************************************************************************)
RECURSIVE Concat(_)
Concat(ss) == IF ss = <<>> THEN <<>> ELSE ss[1] \o Concat(Tail(ss))

IsEvaluate(e) == e.kind = "evaluate"
IsCallback(e) == e.kind = "callback"
IsSample(e) == e.kind = "sample"

\* the batches handed to evaluate, the tokens shown to the callback and the
\* ids drawn, in the order of the calls
Batches(evs) == LET sel == SelectSeq(evs, IsEvaluate) IN [i \in 1 .. Len(sel) |-> sel[i].batch]
Shown(evs) == LET sel == SelectSeq(evs, IsCallback) IN [i \in 1 .. Len(sel) |-> sel[i].tok]
Drawn(evs) == LET sel == SelectSeq(evs, IsSample) IN [i \in 1 .. Len(sel) |-> sel[i].batch[1]]

\* the events of feed_prompt, and those of the play-back before it
FeedEvents == SubSeq(events, fp_start + 1, Len(events))

Returned(name) == pc = "idle" /\ call = name /\ result # Pending
\* feed_prompt has returned Ok, to the caller or into inference_with_prompt
FeedPromptOk == (Returned("feed_prompt") /\ result = Ok) \/ pc = "iwp_fed"
\* infer_next_token has returned Ok, likewise
InferNextTokenOk == (Returned("infer_next_token") /\ result = Ok) \/ pc = "iwp_token"
NoCallbackFailed == \A i \in DOMAIN events : events[i].res \in {"-", "ok"}

(***************************************************************************)
(* C1. feed_prompt on a session with n_past committed positions, given a   *)
(* prompt of L > n_context - n_past tokens, evaluates and records exactly  *)
(* n_context - n_past tokens and returns ContextFull.                      *)
(***************************************************************************)
C1_ContextFullAfterExactFit ==
    (/\ Returned("feed_prompt")
     /\ result # TokenizationFailed
     /\ NoCallbackFailed
     /\ session0.n_past <= n_context_tokens
     /\ Len(prompt_tokens) > n_context_tokens - session0.n_past)
    => /\ result = ContextFull
       /\ session.tokens =
            session0.tokens \o SubSeq(prompt_tokens, 1, n_context_tokens - session0.n_past)
       /\ Len(Concat(Batches(events))) = n_context_tokens - session0.n_past

(***************************************************************************)
(* C2. In every reachable session state n_past <= n_context: no call       *)
(* commits a position beyond the context window.                           *)
(***************************************************************************)
C2_NPastWithinContext == session.n_past <= n_context_tokens

(***************************************************************************)
(* C3. Whenever feed_prompt or infer_next_token returns, with Ok or with   *)
(* any error, tokens.len() == n_past.                                      *)
(***************************************************************************)
C3_TokensLenIsNPast ==
    (Returned("feed_prompt") \/ Returned("infer_next_token"))
    => Len(session.tokens) = session.n_past

(***************************************************************************)
(* C4. feed_prompt splits the tokenized prompt into consecutive batches of *)
(* params.n_batch tokens: each evaluate call receives at most n_batch      *)
(* tokens, every batch but the last exactly n_batch, and the batches       *)
(* concatenated in call order are the tokenized prompt.                    *)
(***************************************************************************)
C4_BatchesOfNBatch ==
    FeedPromptOk =>
        LET bs == Batches(FeedEvents)
        IN /\ \A i \in DOMAIN bs : Len(bs[i]) <= params.n_batch
           /\ \A i \in DOMAIN bs : i < Len(bs) => Len(bs[i]) = params.n_batch
           /\ Concat(bs) = prompt_tokens

(***************************************************************************)
(* C5. A feed_prompt call that returns Ok for a prompt tokenizing to       *)
(* t1..tm leaves tokens equal to its previous value followed by t1..tm,    *)
(* has invoked the callback once per token in that order, and has drawn    *)
(* nothing from the RNG.                                                   *)
(***************************************************************************)
C5_FeedPromptRecordsPrompt ==
    FeedPromptOk =>
        /\ session.tokens = session0.tokens \o prompt_tokens
        /\ Shown(FeedEvents) = [i \in 1 .. Len(prompt_tokens) |-> Token(prompt_tokens[i])]
        /\ Drawn(events) = <<>>

C5_Witness ==
    /\ Returned("feed_prompt")
    /\ result = Ok
    /\ session0.tokens # <<>>
    /\ Len(prompt_tokens) >= 1

(***************************************************************************)
(* C6. When the per-token callback returns an error, in feed_prompt, in    *)
(* the play-back or in the sampling loop, the call returns UserCallback    *)
(* wrapping that error and nothing more happens in it: no later batch is   *)
(* evaluated, no later token is sampled, the callback is not called again. *)
(***************************************************************************)
C6_CallbackErrorEndsTheCall ==
    \A i \in DOMAIN events :
        (IsCallback(events[i]) /\ events[i].res # "ok")
        => /\ i = Len(events)
           /\ pc = "idle"
           /\ result = UserCallback(events[i].res)

C6_Witness ==
    /\ Returned("feed_prompt")
    /\ result = UserCallback("E1")
    /\ Len(prompt_tokens) > chunk_size
    /\ Len(Shown(events)) < chunk_size

(***************************************************************************)
(* C7. Each infer_next_token call appends exactly the sampled id to        *)
(* tokens, then calls evaluate once with the one-element batch of that id, *)
(* so that n_past advances by 1, and returns the end-of-text sentinel iff  *)
(* the sampled id is the end-of-text id, otherwise the sampled token.      *)
(***************************************************************************)
C7_InferNextTokenStep ==
    /\ pc = "inf_eval" =>
          /\ events # <<>>
          /\ events[Len(events)] = EvSample(next_token)
          /\ session.tokens # <<>>
          /\ session.tokens[Len(session.tokens)] = next_token
    /\ InferNextTokenOk =>
        LET n == Len(events)
            ids == Drawn(events)
            before == IF call = "infer_next_token"
                      THEN session0
                      ELSE [session0 EXCEPT !.tokens = @ \o prompt_tokens,
                                            !.n_past = stats.prompt_tokens]
        IN /\ n >= 2
           /\ events[n - 1] = EvSample(next_token)
           /\ events[n] = EvEvaluate(<<next_token>>)
           /\ session.tokens = before.tokens \o ids
           /\ session.n_past = before.n_past + Len(ids)
           /\ ids[Len(ids)] = next_token
           /\ (token = EndOfText) <=> (next_token = EOD_TOKEN_ID)
           /\ (token # EndOfText) => token = Token(next_token)
           /\ call = "infer_next_token" => Len(ids) = 1 /\ n = 2

C7_Witness ==
    /\ Returned("infer_next_token")
    /\ result = Ok
    /\ token = EndOfText
    /\ session0.n_past > 0

(***************************************************************************)
(* C8. Within one inference_with_prompt call the number of sampled tokens  *)
(* never exceeds maximum_token_count, sampling begins only after the whole *)
(* prompt has been fed, and once the end-of-text token has been sampled no *)
(* further token is sampled or evaluated.                                  *)
(***************************************************************************)
C8_SamplingIsBounded ==
    call = "inference_with_prompt" =>
        /\ maximum_token_count.some => Len(Drawn(events)) <= maximum_token_count.v
        /\ \A i \in DOMAIN events :
              IsSample(events[i]) =>
                  /\ i > fp_start
                  /\ Concat(Batches(SubSeq(events, fp_start + 1, i - 1)))
                       = prompt_tokens \o Drawn(SubSeq(events, 1, i - 1))
        /\ \A i \in DOMAIN events :
              (IsSample(events[i]) /\ events[i].batch[1] = EOD_TOKEN_ID)
              => \A j \in DOMAIN events :
                    j > i => \/ events[j] = EvEvaluate(<<EOD_TOKEN_ID>>) /\ j = i + 1
                             \/ IsCallback(events[j]) /\ j = i + 2

C8_Witness ==
    /\ Returned("inference_with_prompt")
    /\ result = Ok
    /\ maximum_token_count = Some(MaxCount)
    /\ tokens_processed = MaxCount
    /\ token # EndOfText
    /\ Len(prompt_tokens) >= 2

(***************************************************************************)
(* C9. Every inference_with_prompt call returns, also when                 *)
(* maximum_token_count is None, end-of-text is never sampled and the       *)
(* callback never fails: the sampling loop is then ended by the full       *)
(* context, so it samples no more tokens than the context window had room  *)
(* for after the prompt.                                                   *)
(***************************************************************************)
C9_FullContextEndsSampling ==
    (/\ call = "inference_with_prompt"
     /\ ~maximum_token_count.some
     /\ NoCallbackFailed
     /\ Drawn(events) # <<>>
     /\ Len(session0.tokens) = session0.n_past
     /\ stats.prompt_tokens <= n_context_tokens)
    => Len(Drawn(events)) <= n_context_tokens - stats.prompt_tokens

(***************************************************************************)
(* C10. Snapshot round trip: InferenceSnapshot::read of the bytes written  *)
(* by InferenceSnapshotRef::write of get_snapshot(session) yields npast,   *)
(* session_params, tokens, last_logits, memory_k and memory_v equal to the *)
(* session's n_past, params, tokens, last_logits and raw K/V bytes.        *)
(***************************************************************************)
C10_SnapshotRoundTrip ==
    snapshot # <<>> =>
        LET r == snapshot[1]
        IN /\ r.npast = session.n_past
           /\ r.session_params = session.params
           /\ r.tokens = session.tokens
           /\ r.last_logits = session.last_logits
           /\ r.memory_k = raw_bytes(session.memory_k, session.params.memory_k_type)
           /\ r.memory_v = raw_bytes(session.memory_v, session.params.memory_v_type)

C10_Witness ==
    /\ snapshot # <<>>
    /\ session.n_past >= 2
    /\ session.params.memory_k_type = "Float16"
    /\ \E i \in DOMAIN session.memory_v : session.memory_v[i] # 0

(***************************************************************************)
(* C11. The serialized snapshot starts with a version tag, a u32, and then *)
(* carries n_past, session_params, tokens, last_logits, the raw bytes of   *)
(* memory_k and the raw bytes of memory_v, in that order.                  *)
(***************************************************************************)
C11_SnapshotStartsWithVersionTag ==
    writer # <<>> =>
        LET fields == enc_usize(session.n_past)
                      \o enc_session_params(session.params)
                      \o enc_seq(session.tokens, 4)
                      \o enc_seq(session.last_logits, 4)
                      \o enc_seq(raw_bytes(session.memory_k, session.params.memory_k_type), 1)
                      \o enc_seq(raw_bytes(session.memory_v, session.params.memory_v_type), 1)
        IN /\ Len(writer) = 4 + Len(fields)
           /\ SubSeq(writer, 5, Len(writer)) = fields

(***************************************************************************)
(* Vocabulary of the properties of load.                                   *)
(***************************************************************************)
IsTensorLoaded(e) == e.kind = "TensorLoaded"
IsLoaded(e) == e.kind = "Loaded"
\* the TensorLoaded events received so far, in order
TensorLoadedEvents == SelectSeq(progress, IsTensorLoaded)
\* the call the builder made last
LastCall == builder.calls[Len(builder.calls)]
\* the codes the format defines, and the file type of each
AcceptedCodes == {0, 1, 2, 3, 4, 5, 7, 8, 9}
CodeTable ==
    {<<"F32", 0>>, <<"MostlyF16", 1>>, <<"MostlyQ4_0", 2>>, <<"MostlyQ4_1", 3>>,
     <<"MostlyQ4_1SomeF16", 4>>, <<"MostlyQ4_2", 5>>, <<"MostlyQ8_0", 7>>,
     <<"MostlyQ5_0", 8>>, <<"MostlyQ5_1", 9>>}
\* the ftype code the file being loaded carries
FileCode == load_input.file.hyperparameters.ftype
\* the hyperparameters of the file have been read and accepted
HyperparametersRead == lpc \notin {"start", "open", "container_type", "read_hyperparameters", "failed"}
                       \/ (lpc = "failed" /\ progress # <<>>)

(***************************************************************************)
(* C12. FileType::try_from(i32) succeeds exactly for the codes 0, 1, 2, 3, *)
(* 4, 5, 7, 8, 9 and fails for every other code (6 and 10 among them); on  *)
(* the accepted codes it is the inverse of i32::from(FileType), with       *)
(* F32=0, MostlyF16=1, MostlyQ4_0=2, MostlyQ4_1=3, MostlyQ4_1SomeF16=4,    *)
(* MostlyQ4_2=5, MostlyQ8_0=7, MostlyQ5_0=8, MostlyQ5_1=9. Seen on a load: *)
(* the file type the hyperparameters end up with is the one of the file's  *)
(* code and writes back as that code, and a file with any other code is    *)
(* refused with UnsupportedFileType carrying the code.                     *)
(***************************************************************************)
C12_FileTypeCodes ==
    /\ \A c \in FtypeCodes : try_from(c).ok <=> c \in AcceptedCodes
    /\ \A ft \in FileType : try_from(i32_from(ft)) = FtOk(ft)
    /\ \A p \in CodeTable : p[1] \in FileType /\ i32_from(p[1]) = p[2]
    /\ Cardinality(CodeTable) = Cardinality(FileType)
    /\ HyperparametersRead =>
          /\ <<loader.hyperparameters.file_type, FileCode>> \in CodeTable
          /\ Hyperparameters_write(loader.hyperparameters).ftype = FileCode
    /\ (lpc = "failed" /\ load_result.tag = "UnsupportedFileType") =>
          /\ FileCode \notin AcceptedCodes
          /\ load_result.ftype = FileCode
    /\ (lpc = "failed" /\ progress = <<>> /\ load_result.tag = "InvalidIntegerConversion") =>
          load_input.file.hyperparameters.n_head < 0
    /\ (lpc \notin {"start", "open", "container_type", "read_hyperparameters"}
        /\ load_input.found.paths = <<ModelPath>> /\ load_input.open_ok
        /\ load_input.file.magic_ok /\ load_input.file.hyperparameters.n_head >= 0
        /\ FileCode \notin AcceptedCodes) =>
          load_result = UnsupportedFileType(FileCode)

C12_Witness ==
    /\ lpc = "failed"
    /\ FileCode = 6
    /\ load_result = UnsupportedFileType(6)

(***************************************************************************)
(* C13. When the sibling search finds more than one model file, load fails *)
(* with MultipartNotSupported carrying every path found; the file is       *)
(* neither opened nor parsed, and no progress event is emitted.            *)
(***************************************************************************)
C13_MultipartNotSupported ==
    (lpc # "start" /\ load_input.found.err = "-" /\ Len(load_input.found.paths) > 1) =>
        /\ lpc = "failed"
        /\ load_result.tag = "MultipartNotSupported"
        /\ load_result.paths = load_input.found.paths
        /\ progress = <<>>
        /\ loader = Loader_new
        /\ tl = NoTensorLoader
        /\ builder = NewBuilder

C13_Witness ==
    /\ lpc = "failed"
    /\ load_result.tag = "MultipartNotSupported"
    /\ load_result.paths = <<Sibling(0), Sibling(1)>>

(***************************************************************************)
(* C14. load_manual called with a shape whose number of dimensions differs *)
(* from the one the file records for that tensor returns InvariantBroken;  *)
(* that call registers no tensor in the loaded-tensor map and emits no     *)
(* TensorLoaded event.                                                     *)
(***************************************************************************)
C14_DimensionMismatch ==
    [][ (/\ Len(builder'.calls) = Len(builder.calls) + 1
         /\ builder'.calls[Len(builder'.calls)].op = "load_manual"
         /\ builder'.calls[Len(builder'.calls)].name \in DOMAIN tl.tensors
         /\ Len(builder'.calls[Len(builder'.calls)].ne)
               # tl.tensors[builder'.calls[Len(builder'.calls)].name].n_dims)
        => (/\ load_result'.tag = "InvariantBroken"
            /\ load_result'.path = ModelPath
            /\ lpc' = "failed"
            /\ tl'.loaded_tensors = tl.loaded_tensors
            /\ progress' = progress) ]_vars

C14_Witness ==
    /\ lpc = "failed"
    /\ load_result.tag = "InvariantBroken"
    /\ builder.calls # <<>>
    /\ LastCall.op = "load_manual"
    /\ LastCall.name \in DOMAIN tl.tensors
    /\ Len(LastCall.ne) # tl.tensors[LastCall.name].n_dims

(***************************************************************************)
(* C15. When the builder asks, through load or load_manual, for a tensor   *)
(* name the file's index does not hold, the loader returns UnknownTensor   *)
(* carrying that name and the path of the model file, and load fails with  *)
(* that error.                                                             *)
(***************************************************************************)
C15_UnknownTensorNamesTheFile ==
    (builder.calls # <<>> /\ LastCall.op \in {"load", "load_manual"}
     /\ LastCall.name \notin DOMAIN tl.tensors) =>
        /\ lpc = "failed"
        /\ load_result.tag = "UnknownTensor"
        /\ load_result.tensor_name = LastCall.name
        /\ load_result.path = ModelPath

(***************************************************************************)
(* C16. Every successful tensor load emits one TensorLoaded event: the     *)
(* k-th reports current_tensor = k - 1 (the first reports 0) and           *)
(* tensor_count = the number of tensors of the file.                       *)
(***************************************************************************)
C16_TensorLoadedIsZeroIndexed ==
    \A k \in DOMAIN TensorLoadedEvents :
        /\ TensorLoadedEvents[k].current_tensor = k - 1
        /\ TensorLoadedEvents[k].tensor_count = Len(load_input.file.tensors)

(***************************************************************************)
(* C17. The progress events of a load come in the order                    *)
(* HyperparametersLoaded, ContextSize, the TensorLoaded events, Loaded:    *)
(* ContextSize never before HyperparametersLoaded, no TensorLoaded before  *)
(* ContextSize, and on success Loaded exactly once, as the last event.     *)
(***************************************************************************)
C17_ProgressOrder ==
    /\ \A i \in DOMAIN progress :
          /\ (i = 1) <=> (progress[i].kind = "HyperparametersLoaded")
          /\ (i = 2) <=> (progress[i].kind = "ContextSize")
          /\ progress[i].kind = "Loaded" => (i = Len(progress) /\ i >= 3 /\ lpc = "loaded")
          /\ (i >= 3 /\ progress[i].kind # "Loaded") => progress[i].kind = "TensorLoaded"
    /\ (load_result = LoadOk) =>
          /\ Len(progress) >= 3
          /\ progress[Len(progress)].kind = "Loaded"
          /\ Len(SelectSeq(progress, IsLoaded)) = 1

C17_Witness ==
    /\ load_result = LoadOk
    /\ Len(TensorLoadedEvents) >= 2
    /\ progress[Len(progress)].kind = "Loaded"

(***************************************************************************)
(* C18. The BLOOM builder calls TensorLoader::finish() exactly once, as    *)
(* its last call on the loader: the loads of the 6 global tensors and of   *)
(* the 12 tensors of each of the n_layer layers all come before it, and no *)
(* load follows it.                                                        *)
(***************************************************************************)
C18_BloomFinishesLast ==
    load_input.known_model = "Bloom" =>
        LET calls == builder.calls
            nl == load_input.file.hyperparameters.n_layer
            names == { calls[i].name : i \in 1 .. (Len(calls) - 1) }
        IN /\ \A i \in DOMAIN calls : calls[i].op = "finish" => i = Len(calls)
           /\ \A i \in DOMAIN calls : calls[i].op \in {"load", "finish"}
           /\ lpc \in {"built", "loaded"} =>
                /\ Len(calls) = 6 + 12 * nl + 1
                /\ calls[Len(calls)] = CallFinish
                /\ Cardinality({ nm \in names : nm.layer = 0 - 1 }) = 6
                /\ \A il \in 0 .. (nl - 1) : Cardinality({ nm \in names : nm.layer = il }) = 12
                /\ \A nm \in names : nm.layer \in (0 - 1) .. (nl - 1)
                /\ \A i \in 1 .. (Len(calls) - 1) : calls[i].op = "load"

C18_Witness ==
    /\ load_input.known_model = "Bloom"
    /\ lpc = "loaded"
    /\ builder.calls[Len(builder.calls)] = CallFinish
    /\ Len(builder.calls) = 6 + 12 * n_layer + 1

(***************************************************************************)
(* C19. When embeddings are requested, evaluate fills them with the        *)
(* n_embd * n activations the final norm put out, before the lm_head       *)
(* projection: the tensor handed to the extraction is the output of the    *)
(* final norm.                                                             *)
(***************************************************************************)
C19_EmbeddingsAreFinalNorm ==
    \A t \in DOMAIN threads :
        (threads[t].pc = "idle" /\ threads[t].output_request.embeddings.some) =>
            threads[t].output_request.embeddings
                = Some(Graph(threads[t].input_tokens, threads[t].n_past).output_norm)

(***************************************************************************)
(* C20. Evaluate calls on distinct sessions of one model, run by separate  *)
(* threads in any interleaving, leave each session as its call alone would *)
(* have left it: the call writes memory_k, memory_v, n_past, last_logits   *)
(* and mem_per_token of the session it is given, never the model, never    *)
(* another session.                                                        *)
(***************************************************************************)
C20_SessionsAreIndependent ==
    /\ model = BloomModel
    /\ \A t \in DOMAIN threads :
          /\ (threads[t].pc = "idle" /\ threads[t].evaluations > 0) =>
                sessions[t] = evaluate(threads[t].before, threads[t].input_tokens)
          /\ (threads[t].pc = "idle" /\ threads[t].evaluations = 0) =>
                sessions[t] = InferenceSession_new(DefaultSessionParameters)
          /\ (threads[t].pc = "compute" /\ threads[t].il = 0) =>
                sessions[t] = threads[t].before
          /\ threads[t].pc = "compute" =>
                /\ sessions[t].n_past = threads[t].before.n_past
                /\ sessions[t].last_logits = threads[t].before.last_logits
                /\ sessions[t].mem_per_token = threads[t].before.mem_per_token

C20_Witness ==
    /\ threads[1].pc = "idle"
    /\ threads[1].input_tokens # <<>>
    /\ threads[2].pc = "compute"
    /\ threads[2].il = 1
    /\ threads[2].before.n_past > 0
    /\ sessions[1].n_past # sessions[2].n_past

(***************************************************************************)
(* C22. In evaluate, for a batch of n tokens with n_past + n <= n_context, *)
(* layer l writes exactly the elements (l * n_context + p) * n_embd + c of *)
(* memory_k and of memory_v with n_past <= p < n_past + n: once the layer  *)
(* has run they hold the keys and values of token p - n_past, and every    *)
(* other element (positions below n_past, positions from n_past + n on,    *)
(* layers that have not run) is as before the call. With n = 0 nothing is  *)
(* written.                                                                *)
(***************************************************************************)
C22_KvWriteRange ==
    \A t \in DOMAIN threads :
       LET th == threads[t]
           n == Len(th.input_tokens)
           n_past == th.before.n_past
           done == IF th.pc = "idle" THEN n_layer ELSE th.il
       IN (th.evaluations > 0 /\ th.pc \in {"idle", "compute"}
           /\ n_past + n <= n_context_tokens) =>
             \A l \in 0 .. (n_layer - 1) : \A p \in 0 .. (n_context_tokens - 1) :
             \A c \in 0 .. (n_embd - 1) :
                LET i == (l * n_context_tokens + p) * n_embd + c + 1
                IN IF l < done /\ n_past <= p /\ p < n_past + n
                   THEN /\ sessions[t].memory_k[i] = KCur(th.input_tokens[p - n_past + 1], l, c)
                        /\ sessions[t].memory_v[i] = VCur(th.input_tokens[p - n_past + 1], l, c)
                   ELSE /\ sessions[t].memory_k[i] = th.before.memory_k[i]
                        /\ sessions[t].memory_v[i] = th.before.memory_v[i]

\* a call on a session that holds a position already, and a call with an
\* empty batch
C22_Witness ==
    /\ threads[1].pc = "idle"
    /\ threads[1].before.n_past > 0
    /\ Len(threads[1].input_tokens) >= 1
    /\ threads[1].before.n_past + Len(threads[1].input_tokens) <= n_context_tokens
    /\ threads[2].pc = "idle"
    /\ threads[2].evaluations > 0
    /\ threads[2].input_tokens = <<>>

(***************************************************************************)
(* C23. In evaluate, the V view the attention of layer l reads is          *)
(* memory_v[l, 0 : n_past + n]: at (p, d, h) it shows channel              *)
(* h * (n_embd / n_head) + d of position p of layer l, that is, for a      *)
(* position of the batch the value the layer has just stored, and for an   *)
(* earlier position the element of the cache that holds that channel.      *)
(***************************************************************************)
C23_VViewReadsWhatWasStored ==
    \A t \in DOMAIN threads :
       LET th == threads[t]
           n == Len(th.input_tokens)
           n_head == model.hyperparameters.n_head
           l == th.il - 1
       IN (th.pc = "compute" /\ th.il >= 1 /\ th.n_past + n <= n_context_tokens) =>
             \A p \in 0 .. (th.n_past + n - 1) : \A d \in 0 .. ((n_embd \div n_head) - 1) :
             \A h \in 0 .. (n_head - 1) :
                LET c == h * (n_embd \div n_head) + d
                IN th.big_v[<<p, d, h>>] =
                      IF p >= th.n_past
                      THEN VCur(th.input_tokens[p - th.n_past + 1], l, c)
                      ELSE th.before.memory_v[(l * n_context_tokens + p) * n_embd + c + 1]

(***************************************************************************)
(* C26. inference_with_prompt called with a callback that never returns an *)
(* error never returns UserCallback: it is still running, or it returned   *)
(* Ok, ContextFull or TokenizationFailed, so the arm of the infer command  *)
(* that matches UserCallback is not taken.                                 *)
(***************************************************************************)
C26_NoUserCallbackWithoutCallbackError ==
    (call = "inference_with_prompt" /\ NoCallbackFailed) =>
        /\ result.tag # "UserCallback"
        /\ pc = "idle" => result \in {Ok, ContextFull, TokenizationFailed}

\* a call that played back, fed and sampled with a callback that always
\* returned Ok(())
C26_Witness ==
    /\ Returned("inference_with_prompt")
    /\ NoCallbackFailed
    /\ Len(Shown(events)) >= 2
    /\ Len(Drawn(events)) >= 1

(***************************************************************************)
(* C28. A feed_prompt call whose prompt tokenizes to zero tokens evaluates *)
(* nothing, calls the callback for nothing and leaves the session (n_past, *)
(* tokens, last_logits, memory_k, memory_v) as it was.                     *)
(***************************************************************************)
C28_EmptyPromptFeedsNothing ==
    ((pc \in {"fp_chunk", "fp_token", "iwp_fed"} \/ FeedPromptOk) /\ prompt_tokens = <<>>) =>
        /\ FeedEvents = <<>>
        /\ session.n_past = session0.n_past
        /\ session.tokens = session0.tokens
        /\ session.last_logits = session0.last_logits
        /\ session.memory_k = session0.memory_k
        /\ session.memory_v = session0.memory_v

\* the empty prompt fed to a session that holds tokens: no BOS is added
C28_Witness ==
    /\ Returned("feed_prompt")
    /\ result = Ok
    /\ prompt.ok
    /\ prompt_tokens = <<>>
    /\ session.n_past > 0

(***************************************************************************)
(* C29. When infer_next_token returns the end-of-text sentinel, the        *)
(* end-of-text id is the last of tokens and was evaluated as a one-token   *)
(* batch: n_past and tokens.len() are one larger than before the call, and *)
(* the K/V cache holds the id's keys and values at the position committed, *)
(* when that position lies in the context window.                          *)
(***************************************************************************)
C29_EndOfTextIsRecordedAndEvaluated ==
    (InferNextTokenOk /\ token = EndOfText) =>
        /\ session.tokens # <<>>
        /\ session.tokens[Len(session.tokens)] = EOD_TOKEN_ID
        /\ events[Len(events)] = EvEvaluate(<<EOD_TOKEN_ID>>)
        /\ call = "infer_next_token" =>
              /\ Len(session.tokens) = Len(session0.tokens) + 1
              /\ session.n_past = session0.n_past + 1
        /\ session.n_past <= n_context_tokens =>
              \A il \in 0 .. (n_layer - 1) : \A c \in 0 .. (n_embd - 1) :
                 LET i == n_embd * (il * n_context_tokens + session.n_past - 1) + c + 1
                 IN /\ session.memory_k[i] = KCur(EOD_TOKEN_ID, il, c)
                    /\ session.memory_v[i] = VCur(EOD_TOKEN_ID, il, c)

\* the sentinel returned by a call on a session that already holds tokens
C29_Witness ==
    /\ Returned("infer_next_token")
    /\ result = Ok
    /\ token = EndOfText
    /\ session0.n_past > 0
    /\ session.n_past <= n_context_tokens

C30_ArenaHoldsTheTensors ==
    (load_input.known_model = "Bloom" /\ tl # NoTensorLoader /\ ~tl.mmap) =>
        /\ progress[2] = ContextSize(tl.context)
        /\ tl.context = Len(load_input.file.tensors) * tensor_overhead
                        + file_size(load_input.file.tensors) - file_size(<<>>)
        /\ tl.used <= tl.context
        /\ \A i, j \in DOMAIN builder.calls :
              (i # j /\ builder.calls[i].op = "load" /\ builder.calls[j].op = "load") =>
                 builder.calls[i].name # builder.calls[j].name
        /\ \A name \in DOMAIN tl.loaded_tensors :
              tl.loaded_tensors[name].ne = tl.tensors[name].dims

\* every tensor of the file is in the arena, which is then full
C30_Witness ==
    /\ lpc = "loaded"
    /\ load_input.known_model = "Bloom"
    /\ ~tl.mmap
    /\ tl.used = tl.context
    /\ tl.used > 0

\* C24: once sized, the scratch buffer of a call is 1 GiB when no
\* mem_per_token was measured or mem_per_token * n does not exceed 1 GiB, and
\* otherwise 1.1 * mem_per_token * n rounded down; so it is never below
\* 1 GiB and, once mem_per_token is measured, never below mem_per_token * n
C24_ScratchBufferSize ==
    scratch.buf_size # 0 =>
        LET m == scratch.mem_per_token
            needed == m * scratch.n
            extra == scratch.buf_size - needed
        IN /\ (m = 0 \/ needed <= GiB) => scratch.buf_size = GiB
           /\ (m # 0 /\ needed > GiB) => (10 * extra <= needed /\ needed < 10 * (extra + 1))
           /\ scratch.buf_size >= GiB
           /\ m > 0 => scratch.buf_size >= needed
C24_Witness ==
    /\ scratch.mem_per_token > 0
    /\ scratch.mem_per_token * scratch.n > GiB
    /\ scratch.buf_size > scratch.mem_per_token * scratch.n
\* C21: runs of the loader over the same file give the same results: the
\* same tensors in the same order, the same vocabulary and the same
\* hyperparameters
C21_LoaderDeterminism ==
    \A i, j \in DOMAIN info_log : info_log[i] = info_log[j]
\* C25: when the interactive command waits for the next line after a line
\* was processed, in REPL mode (chat_mode false) the session equals the
\* session as it was before that line, whatever feed_prompt and
\* inference_with_prompt returned; in chat mode it holds what the line added:
\* the tokens it had before the line, those fed, and those drawn
C25_ReplForgetsChatKeeps ==
    (repl.pc = "readline" /\ repl.lines > 0) =>
        IF chat_mode
        THEN /\ Len(session0.tokens) >= Len(repl.before.v.tokens)
             /\ SubSeq(session0.tokens, 1, Len(repl.before.v.tokens)) = repl.before.v.tokens
             /\ session.tokens = session0.tokens \o prompt_tokens \o Drawn(events)
             /\ session.n_past >= repl.before.v.n_past
        ELSE session = repl.before.v
\* the second line of a REPL run has been processed: inference drew tokens
\* and evaluated them, and the session is the one the run started with
C25_Witness ==
    /\ ~chat_mode
    /\ repl.pc = "readline"
    /\ repl.lines = 2
    /\ Drawn(events) # <<>>
    /\ Batches(events) # <<>>
    /\ session.n_past = 0
====
